---- MODULE Spec2Model ----
(***************************************************************************)
(* Layout-constraint synthesizer: template instantiation with its          *)
(* sweep-line visibility (src/src/instantiation.py) and the Max-SMT        *)
(* pruner (src/src/cse291p/pipeline/hierarchical_decomp).                   *)
(*                                                                         *)
(* Coordinates are integers.  A centre (left+right)/2 is kept doubled      *)
(* (left+right), which orders and compares exactly as the halved value.    *)
(***************************************************************************)
EXTENDS Integers, Sequences, FiniteSets, TLC

\* Largest coordinate of the enumerated example rectangles.
MaxCoord == 2

VARIABLES
    \* ---- template instantiation (src/src/instantiation.py) ----
    shape,                  \* the hierarchy all examples share
    examples,               \* list of example layouts (view name -> rect)
    ipc,                    \* position inside template_instantiation
    ex_idx,                 \* index of the example being swept
    vertical_events,        \* x-coordinates still to be swept
    horizontal_events,      \* y-coordinates still to be swept
    intersecting_anchors,   \* the sorted anchors of the sweep line last cast
    example_visible_matrix, \* matrix being built by compute_visibility_matrix
    visible_matrix,         \* union of the matrices of the examples swept
    sketches,               \* the templates returned
    \* ---- BlackBoxPruner (hierarchical_decomp/blackbox.py) ----
    cands,                  \* the candidate list passed to __call__
    bounds,                 \* the size bounds passed to __init__
    solve_unambig,          \* the flag passed to __init__
    ppc,                    \* position inside __call__
    constraints,            \* filter_constraints' result
    invalid_candidates,     \* selector sets blocked by synth_unambiguous
    x_result,               \* (x_cs, x_min, x_max) once the x instance returned
    result,                 \* the triple __call__ returns
    error,                  \* the exception that ended the call, if any
    \* ---- HierarchicalPruner (hierarchical_decomp/hierarchical.py) ----
    h_cands,                \* the candidate list passed to __call__
    h_unambig,              \* self.solve_unambig
    hpc,                    \* position inside __call__
    worklist,               \* the stack of (focus, min_c, max_c)
    output_constrs,         \* the constraints accumulated so far
    solved,                 \* per pass of the loop: focus, relevant, focus_output
    h_result,               \* the list __call__ returns
    \* ---- synthesize (pipeline/run.py) ----
    s_examples,             \* the view trees of input_data["examples"]
    s_pruning,              \* options.get('pruning_method', 'baseline')
    spc,                    \* position inside synthesize
    s_templates,            \* instantiator.instantiate()
    s_candidates,           \* the flattened learner.learn()
    s_result,               \* result['constraints']
    s_error,                \* the exception that ended the call, if any
    \* ---- constraint round trip (constraint.py, test_evaluation_simple.py) ----
    r_c,                    \* the constraint serialized
    rpc,                    \* position in the round trip
    r_dict,                 \* c.to_dict()
    r_parsed,               \* dict_to_constraint(c.to_dict())
    \* ---- evaluate_layouts (evaluation/metrics.py) ----
    e_examples,             \* the view trees passed as examples
    e_conditional,          \* the flag conditional
    epc,                    \* position inside evaluate_layouts
    e_i,                    \* i of the loop of group_by_isomorphic_structure
    e_assigned,             \* the positions j with assigned[j]
    e_groups,               \* groups, every member given by its position
    e_result                \* the dict evaluate_layouts returns

ivars == <<shape, examples, ipc, ex_idx, vertical_events, horizontal_events,
           intersecting_anchors, example_visible_matrix, visible_matrix, sketches>>

pvars == <<cands, bounds, solve_unambig, ppc, constraints, invalid_candidates,
           x_result, result, error>>

hvars == <<h_cands, h_unambig, hpc, worklist, output_constrs, solved, h_result>>

svars == <<s_examples, s_pruning, spc, s_templates, s_candidates, s_result, s_error>>

rvars == <<r_c, rpc, r_dict, r_parsed>>

evars == <<e_examples, e_conditional, epc, e_i, e_assigned, e_groups, e_result>>

vars == <<ivars, pvars, hvars, svars, rvars, evars>>

\* What a step of one component leaves alone: the other components.
iframe == <<pvars, hvars, svars, rvars, evars>>
pframe == <<ivars, hvars, svars, rvars, evars>>
hframe == <<ivars, pvars, svars, rvars, evars>>
sframe == <<ivars, pvars, hvars, rvars, evars>>
rframe == <<ivars, pvars, hvars, svars, evars>>
eframe == <<ivars, pvars, hvars, svars, rvars>>

\* The value of "no object yet" (Python's None).
None == "None"

\* None where a returned triple is expected.
NoTriple == [none |-> TRUE]

\* The pruner's variables while template_instantiation runs.
PrunerIdle ==
    /\ cands = <<>>
    /\ bounds = None
    /\ solve_unambig = FALSE
    /\ ppc = "idle"
    /\ constraints = {}
    /\ invalid_candidates = {}
    /\ x_result = NoTriple
    /\ result = NoTriple
    /\ error = None

\* The variables of template_instantiation while the pruner runs.
InstIdle ==
    /\ shape = "single"
    /\ examples = <<>>
    /\ ipc = "idle"
    /\ ex_idx = 1
    /\ vertical_events = {}
    /\ horizontal_events = {}
    /\ intersecting_anchors = <<>>
    /\ example_visible_matrix = {}
    /\ visible_matrix = {}
    /\ sketches = <<>>

\* None where a dict or a constraint is expected.
NoRecord == [none |-> TRUE]

\* The variables of synthesize while another component runs.
SynthIdle ==
    /\ s_examples = <<>>
    /\ s_pruning = "baseline"
    /\ spc = "idle"
    /\ s_templates = {}
    /\ s_candidates = {}
    /\ s_result = {}
    /\ s_error = None

\* The variables of the round trip while another component runs.
RoundTripIdle ==
    /\ r_c = NoRecord
    /\ rpc = "idle"
    /\ r_dict = NoRecord
    /\ r_parsed = NoRecord

\* The variables of evaluate_layouts while another component runs.
EvalIdle ==
    /\ e_examples = <<>>
    /\ e_conditional = FALSE
    /\ epc = "idle"
    /\ e_i = 1
    /\ e_assigned = {}
    /\ e_groups = <<>>
    /\ e_result = NoRecord

RunIdle == SynthIdle /\ RoundTripIdle /\ EvalIdle

\* The variables of HierarchicalPruner while another component runs.
HierIdle ==
    /\ h_cands = <<>>
    /\ h_unambig = FALSE
    /\ hpc = "idle"
    /\ worklist = <<>>
    /\ output_constrs = {}
    /\ solved = <<>>
    /\ h_result = {}

-----------------------------------------------------------------------------
(* View trees and anchors (src/src/types.py)                                *)

Shapes == {"single", "sib", "chain"}

\* _flattened_views_in_subtree: the views in pre-order.
FlattenedViews(sh) == IF sh = "single" THEN <<"root", "a">> ELSE <<"root", "a", "b">>

ViewSet(sh) == {FlattenedViews(sh)[k] : k \in 1..Len(FlattenedViews(sh))}

\* View.parent, "none" for the root.
ParentOf(sh, v) ==
    IF v = "root" THEN "none"
    ELSE IF v = "b" /\ sh = "chain" THEN "a"
    ELSE "root"

\* View.anchors(): the fixed order of the eight anchors of a view.
AnchorTypes == <<"left", "right", "top", "bottom", "center_x", "center_y", "width", "height">>

NumAnchors(sh) == 8 * Len(FlattenedViews(sh))

\* _anchors_in_subtree: anchor i (1-based) of the anchor array.
AnchorView(sh, i) == FlattenedViews(sh)[((i - 1) \div 8) + 1]
AnchorType(i) == AnchorTypes[((i - 1) % 8) + 1]

TypeIndex(t) == CHOOSE k \in 1..8 : AnchorTypes[k] = t
ViewIndex(sh, v) == CHOOSE k \in 1..Len(FlattenedViews(sh)) : FlattenedViews(sh)[k] = v

\* anchor_to_index_map[(view.name, type)]
AnchorIndex(sh, v, t) == 8 * (ViewIndex(sh, v) - 1) + TypeIndex(t)

is_size(i) == AnchorType(i) \in {"width", "height"}
is_position(i) == AnchorType(i) \in {"left", "top", "right", "bottom", "center_x", "center_y"}
is_horizontal(i) == AnchorType(i) \in {"left", "right", "center_x", "width"}
is_vertical(i) == AnchorType(i) \in {"top", "bottom", "center_y", "height"}

\* rect = (left, top, right, bottom)
Left(r) == r[1]
Top(r) == r[2]
Right(r) == r[3]
Bottom(r) == r[4]

-----------------------------------------------------------------------------
(* compute_visibility_matrix (src/src/instantiation.py:11-149)              *)

\* The views whose edges are stored: every view of the subtree but the root.
SweptViews(sh) == ViewSet(sh) \ {"root"}

\* y-coordinates at which a horizontal line is cast: root top and bottom,
\* and top and bottom of every stored view.
HorizontalEventsOf(sh, ex) ==
    {Top(ex["root"]), Bottom(ex["root"])}
        \cup {Top(ex[v]) : v \in SweptViews(sh)} \cup {Bottom(ex[v]) : v \in SweptViews(sh)}

\* x-coordinates at which a vertical line is cast.
VerticalEventsOf(sh, ex) ==
    {Left(ex["root"]), Right(ex["root"])}
        \cup {Left(ex[v]) : v \in SweptViews(sh)} \cup {Right(ex[v]) : v \in SweptViews(sh)}

\* horizontal_edge_tree[c]: the top and bottom anchors of the views whose
\* interval [left, right) holds c (an IntervalTree interval is half-open).
HorizontalEdgesAt(sh, ex, c) ==
    {AnchorIndex(sh, v, t) :
        v \in {u \in SweptViews(sh) : Left(ex[u]) <= c /\ c < Right(ex[u])},
        t \in {"top", "bottom"}}

\* vertical_edge_tree[c]: the left and right anchors of the views whose
\* interval [top, bottom) holds c.
VerticalEdgesAt(sh, ex, c) ==
    {AnchorIndex(sh, v, t) :
        v \in {u \in SweptViews(sh) : Top(ex[u]) <= c /\ c < Bottom(ex[u])},
        t \in {"left", "right"}}

\* Sort key of a horizontal edge: (view.center_y, position), centre doubled.
VerticalSweepKey(sh, ex, i) ==
    LET r == ex[AnchorView(sh, i)]
    IN <<Top(r) + Bottom(r), IF AnchorType(i) = "top" THEN Top(r) ELSE Bottom(r)>>

\* Sort key of a vertical edge: (view.center_x, position), centre doubled.
HorizontalSweepKey(sh, ex, i) ==
    LET r == ex[AnchorView(sh, i)]
    IN <<Left(r) + Right(r), IF AnchorType(i) = "left" THEN Left(r) ELSE Right(r)>>

SweepKey(sh, ex, i, vertical) ==
    IF vertical THEN VerticalSweepKey(sh, ex, i) ELSE HorizontalSweepKey(sh, ex, i)

\* Python's tuple order on the two-component keys.
KeyLeq(k1, k2) == k1[1] < k2[1] \/ (k1[1] = k2[1] /\ k1[2] <= k2[2])

\* list.sort(key=...) of the anchors a tree query returned.  The query gives
\* a set, whose iteration order is not fixed, and the sort is stable: every
\* arrangement that is ascending in the key can result.
RECURSIVE SortedOrders(_, _, _, _)
SortedOrders(S, sh, ex, vertical) ==
    IF S = {} THEN {<<>>}
    ELSE LET least == {e \in S : \A f \in S :
                          KeyLeq(SweepKey(sh, ex, e, vertical), SweepKey(sh, ex, f, vertical))}
         IN UNION {{<<m>> \o rest : rest \in SortedOrders(S \ {m}, sh, ex, vertical)} : m \in least}

\* The root edges start and end the intersecting anchors.
WithRootEdges(sh, sorted, vertical) ==
    IF vertical
    THEN <<AnchorIndex(sh, "root", "top")>> \o sorted \o <<AnchorIndex(sh, "root", "bottom")>>
    ELSE <<AnchorIndex(sh, "root", "left")>> \o sorted \o <<AnchorIndex(sh, "root", "right")>>

\* PairMarks without the mirrored edge entry (line 99 or 141 left out).
PairMarks_OneWay(sh, p, q, vertical) ==
    LET c == IF vertical THEN "center_y" ELSE "center_x"
        cp == AnchorIndex(sh, AnchorView(sh, p), c)
        cq == AnchorIndex(sh, AnchorView(sh, q), c)
    IN {<<p, q>>, <<cp, cq>>, <<cq, cp>>}

\* The entries one adjacent pair (p, q) of different views sets to True:
\* the edge anchors both ways and the views' centre anchors both ways.
PairMarks(sh, p, q, vertical) ==
    LET c == IF vertical THEN "center_y" ELSE "center_x"
        cp == AnchorIndex(sh, AnchorView(sh, p), c)
        cq == AnchorIndex(sh, AnchorView(sh, q), c)
    IN {<<p, q>>, <<q, p>>, <<cp, cq>>, <<cq, cp>>}

\* The loop over adjacent anchors of one sweep line.
SweepMarks(sh, seq, vertical) ==
    UNION {IF AnchorView(sh, seq[k]) = AnchorView(sh, seq[k + 1])
           THEN {}
           ELSE PairMarks(sh, seq[k], seq[k + 1], vertical) : k \in 1..(Len(seq) - 1)}

-----------------------------------------------------------------------------
(* template_instantiation (src/src/instantiation.py:152-305)                *)

same_view_matrix(sh, i, j) == AnchorView(sh, i) = AnchorView(sh, j)
same_type_matrix(i, j) == AnchorType(i) = AnchorType(j)

\* parent_matrix[i, j]: the view of anchor j is in the children of the view
\* of anchor i.
parent_matrix(sh, i, j) == ParentOf(sh, AnchorView(sh, j)) = AnchorView(sh, i)

sibling_matrix(sh, i, j) ==
    /\ AnchorView(sh, i) # AnchorView(sh, j)
    /\ ParentOf(sh, AnchorView(sh, i)) = ParentOf(sh, AnchorView(sh, j))

both_size_matrix(i, j) == is_size(i) /\ is_size(j)
both_position_matrix(i, j) == is_position(i) /\ is_position(j)
both_horizontal_matrix(i, j) == is_horizontal(i) /\ is_horizontal(j)
both_vertical_matrix(i, j) == is_vertical(i) /\ is_vertical(j)
one_horizontal_one_vertical_matrix(i, j) == is_horizontal(i) /\ is_vertical(j)

\* dual_type_matrix taken on the unordered pair of types.
dual_type_matrix_Unordered(i, j) ==
    \/ {AnchorType(i), AnchorType(j)} = {"left", "right"}
    \/ {AnchorType(i), AnchorType(j)} = {"top", "bottom"}

dual_type_matrix(i, j) ==
    \/ (AnchorType(i) = "right" /\ AnchorType(j) = "left")
    \/ (AnchorType(i) = "bottom" /\ AnchorType(j) = "top")

aspect_ratio_matrix(sh, i, j) ==
    same_view_matrix(sh, i, j) /\ both_size_matrix(i, j)
        /\ one_horizontal_one_vertical_matrix(i, j)

\* parent_relative_matrix without the same-axis conjunct.
parent_relative_matrix_AnyAxis(sh, i, j) ==
    parent_matrix(sh, i, j) /\ both_size_matrix(i, j)

parent_relative_matrix(sh, i, j) ==
    parent_matrix(sh, i, j) /\ both_size_matrix(i, j)
        /\ (both_horizontal_matrix(i, j) \/ both_vertical_matrix(i, j))

offset_parent_child_matrix(sh, vis, i, j) ==
    parent_matrix(sh, i, j) /\ both_position_matrix(i, j) /\ same_type_matrix(i, j)
        /\ <<i, j>> \in vis

offset_sibling_matrix(sh, vis, i, j) ==
    sibling_matrix(sh, i, j) /\ both_position_matrix(i, j) /\ dual_type_matrix(i, j)
        /\ <<i, j>> \in vis

offset_matrix(sh, vis, i, j) ==
    offset_parent_child_matrix(sh, vis, i, j) \/ offset_sibling_matrix(sh, vis, i, j)

\* h_visible_view_matrix: the (view, 8, view, 8) blocks of
\* both_horizontal & visible reduced with any(), as pairs of views.
h_visible_views(sh, vis) ==
    {<<AnchorView(sh, pq[1]), AnchorView(sh, pq[2])>> :
        pq \in {e \in vis : both_horizontal_matrix(e[1], e[2])}}

\* v_visible_view_matrix, likewise for both_vertical & visible.
v_visible_views(sh, vis) ==
    {<<AnchorView(sh, pq[1]), AnchorView(sh, pq[2])>> :
        pq \in {e \in vis : both_vertical_matrix(e[1], e[2])}}

alignment_horizontal_matrix(sh, vv, i, j) ==
    sibling_matrix(sh, i, j) /\ both_horizontal_matrix(i, j) /\ both_position_matrix(i, j)
        /\ same_type_matrix(i, j) /\ <<AnchorView(sh, i), AnchorView(sh, j)>> \in vv

alignment_vertical_matrix(sh, hv, i, j) ==
    sibling_matrix(sh, i, j) /\ both_vertical_matrix(i, j) /\ both_position_matrix(i, j)
        /\ same_type_matrix(i, j) /\ <<AnchorView(sh, i), AnchorView(sh, j)>> \in hv

\* alignment_matrix with the vertical alignments left out.
alignment_matrix_HorizontalOnly(sh, hv, vv, i, j) ==
    alignment_horizontal_matrix(sh, vv, i, j)

alignment_matrix(sh, hv, vv, i, j) ==
    alignment_horizontal_matrix(sh, vv, i, j) \/ alignment_vertical_matrix(sh, hv, i, j)

\* LinearConstraint(y, x, a, b) with a or b None while unknown; x = 0 is None.
Sketch(y, x, a, b) == [y |-> y, x |-> x, a |-> a, b |-> b]

\* What the body of the (i, j) loop appends.
PairSketches(sh, vis, hv, vv, i, j) ==
    (IF aspect_ratio_matrix(sh, i, j) THEN <<Sketch(i, j, "None", "0.0")>> ELSE <<>>)
    \o (IF parent_relative_matrix(sh, i, j) THEN <<Sketch(i, j, "None", "0.0")>> ELSE <<>>)
    \o (IF offset_matrix(sh, vis, i, j) \/ alignment_matrix(sh, hv, vv, i, j)
        THEN <<Sketch(i, j, "1.0", "None")>> ELSE <<>>)

\* What the loop over the size anchors appends for anchor i.
ConstantSketches(i) ==
    IF is_size(i) THEN <<Sketch(i, 0, "0.0", "None")>> ELSE <<>>

\* The list template_instantiation returns for the visibility matrix vis.
SketchesOf(sh, vis) ==
    LET n == NumAnchors(sh)
        hv == h_visible_views(sh, vis)
        vv == v_visible_views(sh, vis)
        row[i \in 1..n] ==
            LET cell[j \in 0..n] ==
                    IF j = 0 THEN <<>>
                    ELSE cell[j - 1] \o PairSketches(sh, vis, hv, vv, i, j)
            IN cell[n]
        linear[i \in 0..n] == IF i = 0 THEN <<>> ELSE linear[i - 1] \o row[i]
        const[i \in 0..n] == IF i = 0 THEN <<>> ELSE const[i - 1] \o ConstantSketches(i)
    IN linear[n] \o const[n]

-----------------------------------------------------------------------------
(* Inputs of template_instantiation                                         *)

Coords == 0..MaxCoord

\* Rectangles of positive width and height (IntervalTree rejects an empty
\* interval).
GridRects ==
    {<<l, t, r, b>> : l \in Coords, t \in Coords, r \in Coords, b \in Coords}
        \cap {q \in Coords \X Coords \X Coords \X Coords : q[1] < q[3] /\ q[2] < q[4]}

RootRect == <<0, 0, MaxCoord, MaxCoord>>

\* a before b in a fixed order of the rectangles: a pair of siblings is
\* enumerated once, not once per naming.
RectCode(q) == ((q[1] * (MaxCoord + 1) + q[2]) * (MaxCoord + 1) + q[3]) * (MaxCoord + 1) + q[4]

\* b within a: a grandchild lies in its parent.
Within(rb, ra) ==
    Left(ra) <= Left(rb) /\ Right(rb) <= Right(ra) /\ Top(ra) <= Top(rb) /\ Bottom(rb) <= Bottom(ra)

GridExamples(sh) ==
    IF sh = "single"
    THEN {[v \in {"root", "a"} |-> IF v = "root" THEN RootRect ELSE ra] : ra \in GridRects}
    ELSE {[v \in {"root", "a", "b"} |->
              IF v = "root" THEN RootRect ELSE IF v = "a" THEN rr[1] ELSE rr[2]] :
          rr \in {q \in GridRects \X GridRects :
                     IF sh = "sib" THEN RectCode(q[1]) <= RectCode(q[2])
                     ELSE Within(q[2], q[1])}}

\* Layouts of tests/test_instantiation.py, and a child holding a smaller
\* grandchild.
Layout2(r0, ra) == [v \in {"root", "a"} |-> IF v = "root" THEN r0 ELSE ra]
Layout3(r0, ra, rb) ==
    [v \in {"root", "a", "b"} |-> IF v = "root" THEN r0 ELSE IF v = "a" THEN ra ELSE rb]

TestExamples(sh) ==
    IF sh = "single"
    THEN << Layout2(<<0, 0, 100, 100>>, <<10, 10, 60, 60>>),
            Layout2(<<0, 0, 200, 100>>, <<10, 10, 60, 60>>),
            Layout2(<<0, 0, 100, 200>>, <<10, 10, 60, 60>>) >>
    ELSE IF sh = "sib"
    THEN << Layout3(<<0, 0, 100, 100>>, <<10, 10, 90, 45>>, <<10, 55, 90, 90>>),
            Layout3(<<0, 0, 200, 100>>, <<10, 10, 90, 45>>, <<10, 55, 90, 90>>),
            Layout3(<<0, 0, 100, 100>>, <<10, 10, 45, 90>>, <<55, 10, 90, 90>>) >>
    ELSE << Layout3(<<0, 0, 100, 100>>, <<10, 10, 90, 90>>, <<20, 20, 40, 40>>),
            Layout3(<<0, 0, 200, 100>>, <<10, 10, 190, 90>>, <<20, 20, 40, 40>>),
            Layout3(<<0, 0, 100, 100>>, <<10, 10, 90, 90>>, <<10, 10, 90, 90>>) >>

\* The example lists tried: one enumerated example, or one to three test
\* layouts of the same hierarchy.
ExampleLists(sh) ==
    {<<e>> : e \in GridExamples(sh)}
        \cup {SubSeq(TestExamples(sh), km[1], km[2]) :
                 km \in {q \in (1..3) \X (1..3) : q[1] <= q[2]}}

-----------------------------------------------------------------------------
(* The steps of template_instantiation                                      *)

IInit ==
    /\ shape \in Shapes
    /\ examples \in ExampleLists(shape)
    /\ ipc = "begin"
    /\ ex_idx = 1
    /\ vertical_events = {}
    /\ horizontal_events = {}
    /\ intersecting_anchors = <<>>
    /\ example_visible_matrix = {}
    /\ visible_matrix = {}
    /\ sketches = <<>>
    /\ PrunerIdle
    /\ HierIdle
    /\ RunIdle

\* compute_visibility_matrix, lines 20-65: an all-False matrix, the edge
\* trees and the event sets of example ex_idx.
BeginVisibility ==
    /\ ipc = "begin"
    /\ example_visible_matrix' = {}
    /\ vertical_events' = VerticalEventsOf(shape, examples[ex_idx])
    /\ horizontal_events' = HorizontalEventsOf(shape, examples[ex_idx])
    /\ intersecting_anchors' = <<>>
    /\ ipc' = "vertical"
    /\ UNCHANGED <<shape, examples, ex_idx, visible_matrix, sketches>>
    /\ UNCHANGED iframe

\* One iteration of "for vertical_line in vertical_events" (lines 67-105).
VerticalSweep ==
    /\ ipc = "vertical"
    /\ \E line \in vertical_events :
        \E sorted \in SortedOrders(HorizontalEdgesAt(shape, examples[ex_idx], line),
                                   shape, examples[ex_idx], TRUE) :
            LET seq == WithRootEdges(shape, sorted, TRUE)
            IN /\ intersecting_anchors' = seq
               /\ example_visible_matrix' =
                      example_visible_matrix \cup SweepMarks(shape, seq, TRUE)
               /\ vertical_events' = vertical_events \ {line}
               /\ ipc' = IF vertical_events' = {} THEN "horizontal" ELSE "vertical"
    /\ UNCHANGED <<shape, examples, ex_idx, horizontal_events, visible_matrix, sketches>>
    /\ UNCHANGED iframe

\* One iteration of "for horizontal_line in horizontal_events" (lines 107-147).
HorizontalSweep ==
    /\ ipc = "horizontal"
    /\ \E line \in horizontal_events :
        \E sorted \in SortedOrders(VerticalEdgesAt(shape, examples[ex_idx], line),
                                   shape, examples[ex_idx], FALSE) :
            LET seq == WithRootEdges(shape, sorted, FALSE)
            IN /\ intersecting_anchors' = seq
               /\ example_visible_matrix' =
                      example_visible_matrix \cup SweepMarks(shape, seq, FALSE)
               /\ horizontal_events' = horizontal_events \ {line}
               /\ ipc' = IF horizontal_events' = {} THEN "return" ELSE "horizontal"
    /\ UNCHANGED <<shape, examples, ex_idx, vertical_events, visible_matrix, sketches>>
    /\ UNCHANGED iframe

\* compute_visibility_matrix returns and template_instantiation ORs the
\* matrix into visible_matrix (lines 149, 198-200); the locals of the call
\* are gone.
UnionVisibility ==
    /\ ipc = "return"
    /\ visible_matrix' = visible_matrix \cup example_visible_matrix
    /\ example_visible_matrix' = {}
    /\ intersecting_anchors' = <<>>
    /\ IF ex_idx < Len(examples)
       THEN ex_idx' = ex_idx + 1 /\ ipc' = "begin"
       ELSE ex_idx' = ex_idx /\ ipc' = "emit"
    /\ UNCHANGED <<shape, examples, vertical_events, horizontal_events, sketches>>
    /\ UNCHANGED iframe

\* The masks and the emission loops (lines 202-305).
EmitSketches ==
    /\ ipc = "emit"
    /\ sketches' = SketchesOf(shape, visible_matrix)
    /\ ipc' = "done"
    /\ UNCHANGED <<shape, examples, ex_idx, vertical_events, horizontal_events,
                   intersecting_anchors, example_visible_matrix, visible_matrix>>
    /\ UNCHANGED iframe

INext ==
    \/ BeginVisibility
    \/ VerticalSweep
    \/ HorizontalSweep
    \/ UnionVisibility
    \/ EmitSketches

SpecInst == IInit /\ [][INext]_vars

-----------------------------------------------------------------------------
(* BlackBoxPruner (src/src/cse291p/pipeline/hierarchical_decomp)            *)
(*                                                                         *)
(* The pruner is run on one focus view "root" with one child "a"            *)
(* (targets = [root, a]).  A rect is <<left, top, right, bottom>>; on one   *)
(* axis a view is the pair <<lo, hi>> of its left/right or top/bottom, its  *)
(* width/height is hi - lo by the layout axioms.  No candidate of the pool  *)
(* names a centre anchor, so centres never enter a solve.                   *)

\* Largest value the solver's model gives to an anchor the selected
\* constraints leave free (values the constraints force are never cut).
MaxFree == 1

\* Largest number of horizontal candidates in a candidate list.
MaxCands == 3

\* self.targets: the focus view and its children (run.py line 103).
Targets == <<"root", "a">>
Children == {"a"}

\* self.example = examples[0]: the focus view of the first example.
FocusExample == [v \in {"root", "a"} |-> IF v = "root" THEN <<0, 0, 2, 2>> ELSE <<0, 0, 1, 1>>]

\* IView.is_parent_of_name on the example hierarchy.
is_parent_of_name(v, name) == v = "root" /\ name \in Children

\* ---- constraints (pipeline/constraint/constraint.py) ----

NoAnchor == <<>>

LinearConstraint(kind, y_id, x_id, a, b, op, priority) ==
    [kind |-> kind, y_id |-> y_id, x_id |-> x_id, a |-> a, b |-> b, op |-> op,
     priority |-> priority, sample_count |-> 1, is_falsified |-> FALSE]

ConstantConstraint(kind, y_id, b, op, priority) ==
    [kind |-> kind, y_id |-> y_id, x_id |-> NoAnchor, a |-> 0, b |-> b, op |-> op,
     priority |-> priority, sample_count |-> 1, is_falsified |-> FALSE]

ConstraintCandidate(constraint, score) == [constraint |-> constraint, score |-> score]

\* h_attrs | {WIDTH} and v_attrs | {HEIGHT} of is_x_constr.
hs_attrs == {"left", "right", "center_x", "width"}
vs_attrs == {"top", "bottom", "center_y", "height"}

\* is_x_constr raises 'bad constraint with mixed dimensions' on these.
MixedDimensions_Never(c) == FALSE

MixedDimensions(c) ==
    /\ c.x_id # NoAnchor
    /\ ~(c.x_id[2] \in hs_attrs /\ c.y_id[2] \in hs_attrs)
    /\ ~(c.x_id[2] \in vs_attrs /\ c.y_id[2] \in vs_attrs)

is_x_constr(c) ==
    IF c.x_id # NoAnchor
    THEN c.x_id[2] \in hs_attrs /\ c.y_id[2] \in hs_attrs
    ELSE c.y_id[2] \in hs_attrs

\* anchor_equiv of hierarchical_decomp/util.py: the two constraints relate
\* the same anchors.
anchor_equiv(c1, c2) == c1.y_id = c2.y_id /\ c1.x_id = c2.x_id

\* ---- the candidates the lists are drawn from ----

\* Horizontal candidates, in the order they keep inside a list; the last
\* one relates a horizontal anchor to a vertical one.  The offsets between
\* one pair of anchors are even, so the mean of two is an integer.
XPool == <<
    ConstraintCandidate(LinearConstraint("pos_ltrb_offset", <<"a", "left">>, <<"root", "left">>, 1, 0, "=", "required"), 2),
    ConstraintCandidate(LinearConstraint("pos_ltrb_offset", <<"a", "right">>, <<"root", "width">>, 1, 0, "=", "required"), 1),
    ConstraintCandidate(ConstantConstraint("size_constant", <<"a", "width">>, 1, "=", "required"), 1),
    ConstraintCandidate(LinearConstraint("pos_ltrb_offset", <<"a", "left">>, <<"root", "left">>, 1, 0, ">=", "required"), 1),
    ConstraintCandidate(LinearConstraint("pos_ltrb_offset", <<"a", "left">>, <<"root", "left">>, 1, 4, "<=", "required"), 1),
    ConstraintCandidate(LinearConstraint("pos_ltrb_offset", <<"a", "left">>, <<"root", "left">>, 1, 0, "=", "strong"), 1),
    ConstraintCandidate(LinearConstraint("size_aspect_ratio", <<"a", "width">>, <<"a", "height">>, 1, 0, "=", "required"), 3),
    ConstraintCandidate(LinearConstraint("size_offset", <<"root", "width">>, <<"a", "width">>, 1, 1, "=", "required"), 1),
    ConstraintCandidate(LinearConstraint("pos_ltrb_offset", <<"a", "left">>, <<"root", "top">>, 1, 0, "=", "required"), 1)
>>

\* Vertical candidates that fix the child: a.top = root.top, a.height = 1.
YPool == <<
    ConstraintCandidate(LinearConstraint("pos_ltrb_offset", <<"a", "top">>, <<"root", "top">>, 1, 0, "=", "required"), 1),
    ConstraintCandidate(ConstantConstraint("size_constant", <<"a", "height">>, 1, "=", "required"), 1)
>>

RECURSIVE SubSeqOf(_, _)
\* The members of pool whose index is in idx, in pool order.
SubSeqOf(pool, idx) ==
    IF idx = {} THEN <<>>
    ELSE LET m == CHOOSE k \in idx : \A j \in idx : k >= j
         IN Append(SubSeqOf(pool, idx \ {m}), pool[m])

\* Candidate lists: up to MaxCands horizontal candidates, followed by the
\* vertical candidates or by none.
CandidateLists ==
    {SubSeqOf(XPool, idx) \o ys :
        idx \in {s \in SUBSET (1..Len(XPool)) : Cardinality(s) <= MaxCands},
        ys \in {YPool, <<>>}}

\* No size bound given (None).
NoBound == -1

SizeBounds(min_w, max_w, min_x, max_x) ==
    [min_w |-> min_w, max_w |-> max_w, min_h |-> NoBound, max_h |-> NoBound,
     min_x |-> min_x, max_x |-> max_x, min_y |-> NoBound, max_y |-> NoBound]

\* The bounds a pruner is built with: none, a width range, a width and a
\* left range, a width range that starts at 0.
BoundsOptions ==
    {SizeBounds(NoBound, NoBound, NoBound, NoBound),
     SizeBounds(1, 3, NoBound, NoBound),
     SizeBounds(1, 3, 0, 2),
     SizeBounds(0, 4, NoBound, NoBound)}

\* ---- BlackBoxPruner.__init__ and the conformances ----

Min(a, b) == IF a <= b THEN a ELSE b
Max(a, b) == IF a >= b THEN a ELSE b

\* Python's "bounds.get(k, None) or d": None and 0 both give d.
BoundOr(v, d) == IF v = NoBound \/ v = 0 THEN d ELSE v

Conformance(w, h, x, y) == [w |-> w, h |-> h, x |-> x, y |-> y]

RectWidth(r) == r[3] - r[1]
RectHeight(r) == r[4] - r[2]

\* self.min_conf (blackbox.py lines 63-78), for the one example given.
min_conf(bd) ==
    LET r == FocusExample["root"]
    IN Conformance(Min(BoundOr(bd.min_w, RectWidth(r)), RectWidth(r)),
                   Min(BoundOr(bd.min_h, RectHeight(r)), RectHeight(r)),
                   Min(BoundOr(bd.min_x, r[1]), r[1]),
                   Min(BoundOr(bd.min_y, r[2]), r[2]))

\* self.max_conf (blackbox.py lines 63-79).
max_conf(bd) ==
    LET r == FocusExample["root"]
    IN Conformance(Max(BoundOr(bd.max_w, RectWidth(r)), RectWidth(r)),
                   Max(BoundOr(bd.max_h, RectHeight(r)), RectHeight(r)),
                   Max(BoundOr(bd.max_x, r[1]), r[1]),
                   Max(BoundOr(bd.max_y, r[2]), r[2]))

\* conformance_range(min_conf, max_conf, scale=5): the two ends and their
\* mean.  The bounds used keep every mean an integer.
conformance_range(lo, hi) ==
    <<lo,
      Conformance((lo.w + hi.w) \div 2, (lo.h + hi.h) \div 2,
                  (lo.x + hi.x) \div 2, (lo.y + hi.y) \div 2),
      hi>>

confs == conformance_range(min_conf(bounds), max_conf(bounds))

\* ---- filter_constraints, combine_bounds, build_biases (types.py) ----

\* first_true(constraints, pred = anchor_equiv(c, t) and c.op != t.op,
\* default = c).
FirstOther(cs, c) ==
    LET hits == {k \in 1..Len(cs) : anchor_equiv(c, cs[k]) /\ c.op # cs[k].op}
    IN IF hits = {} THEN c ELSE cs[CHOOSE k \in hits : \A j \in hits : k <= j]

Abs(n) == IF n < 0 THEN -n ELSE n

\* What combine_bounds puts in its output for the member c of cs.
Combined(cs, c) ==
    LET other == FirstOther(cs, c)
    IN IF other # c /\ Abs(other.b - c.b) < 5
       THEN [c EXCEPT !.op = "=", !.b = (other.b + c.b) \div 2, !.priority = "strong"]
       ELSE c

combine_bounds(cs) == {Combined(cs, cs[k]) : k \in 1..Len(cs)}

\* [c.constraint for c in cands] without the aspect-ratio constraints.
WithoutAspectRatio(cds) ==
    SelectSeq([k \in 1..Len(cds) |-> cds[k].constraint],
              LAMBDA c : c.kind # "size_aspect_ratio")

filter_constraints_KeepUneq(cds) == combine_bounds(WithoutAspectRatio(cds))

filter_constraints(cds) ==
    {c \in combine_bounds(WithoutAspectRatio(cds)) : c.op = "="}

\* The keys of the dict build_biases returns.
BiasKeys(cds) == {cds[k].constraint : k \in 1..Len(cds)}

\* scores[constraint]: the score of the last candidate holding it (0 stands
\* for a missing key, on which line 249 raises before any weight is used).
ScoreOf(cds, c) ==
    LET ks == {k \in 1..Len(cds) : cds[k].constraint = c}
    IN IF ks = {} THEN 0 ELSE cds[CHOOSE k \in ks : \A j \in ks : k >= j].score

\* reward_parent_relative: the factor applied to the bias of c.
RewardFactor(c, unambig) ==
    IF unambig /\ c.x_id # NoAnchor /\ is_parent_of_name(c.y_id[1], c.x_id[1])
    THEN 10 ELSE 1

\* The constraints whose lookup biases[constr] (blackbox.py line 249)
\* raises KeyError.
MissingWeight_None(cs, cds) == {}

MissingWeight(cs, cds) == {c \in cs : c \notin BiasKeys(cds)}

\* ---- the axis instances (blackbox.py lines 242-264, types.py 135-165) ----

\* x_names / y_names: the constraints given a selector on an axis.
names_map(x_dim) == {c \in constraints : is_x_constr(c) = x_dim}

\* add_conf_dims with the layout axioms of the focus view: its <<lo, hi>>
\* on the axis at a conformance.
FocusPair(conf, x_dim) ==
    IF x_dim THEN <<conf.x, conf.x + conf.w>> ELSE <<conf.y, conf.y + conf.h>>

\* Largest edge of the focus view over the bounds used.
MaxFocusEdge ==
    LET edges == {FocusPair(max_conf(bd), xd)[2] : bd \in BoundsOptions, xd \in BOOLEAN}
    IN CHOOSE e \in edges : \A f \in edges : e >= f

\* The values an anchor of a child is searched over: wide enough for every
\* value the constraints of the pool force and for a second solution.
ValueRange == 0..(MaxFocusEdge + MaxFree)

\* add_layout_axioms for the children: size = hi - lo and every anchor >= 0.
Placements == [Children -> {p \in ValueRange \X ValueRange : p[1] <= p[2]}]

\* The value of an anchor in a model of the axis instance.
AnchorValue(id, focus, v) ==
    LET p == IF id[1] = "root" THEN focus ELSE v[id[1]]
    IN CASE id[2] \in {"left", "top"} -> p[1]
         [] id[2] \in {"right", "bottom"} -> p[2]
         [] id[2] \in {"width", "height"} -> p[2] - p[1]

Compare(op, l, r) ==
    CASE op = "=" -> l = r
      [] op = "<=" -> l <= r
      [] op = ">=" -> l >= r

\* constraint_to_z3_expr (integration/z3.py lines 22-30).
constraint_to_z3_expr(c, focus, v) ==
    IF c.x_id # NoAnchor
    THEN Compare(c.op, AnchorValue(c.y_id, focus, v), AnchorValue(c.x_id, focus, v) * c.a + c.b)
    ELSE Compare(c.op, AnchorValue(c.y_id, focus, v), c.b)

\* The placements of the children that satisfy the layout axioms and the
\* constraints of S with the focus view pinned to conf.
FeasibleAt(S, conf, x_dim) ==
    LET focus == FocusPair(conf, x_dim)
    IN IF focus[1] < 0 \/ focus[2] < focus[1] THEN {}
       ELSE {v \in Placements : \A c \in S : constraint_to_z3_expr(c, focus, v)}

\* The placements that satisfy the hard clauses of conformance ci once the
\* selectors of S are true.
Feasible(S, ci, x_dim) == FeasibleAt(S, confs[ci], x_dim)

\* solver.check() can make exactly the selectors of S true: the hard
\* clauses of every conformance and the blocking clauses of the loop hold.
Satisfiable_Unblocked(S, x_dim, invalid) ==
    \A ci \in 1..Len(confs) : Feasible(S, ci, x_dim) # {}

Satisfiable(S, x_dim, invalid) ==
    /\ \A ci \in 1..Len(confs) : Feasible(S, ci, x_dim) # {}
    /\ \A blocked \in invalid : ~(blocked \subseteq S)

\* The soft weight of a selection.  A bias is score / min_score + tiny,
\* times the reward factor; min_score scales every bias alike and tiny is
\* below every score difference, so sums compare as the pair
\* <<sum of score * factor, sum of factor>> in lexicographic order.
RECURSIVE SoftWeight(_)
SoftWeight(S) ==
    IF S = {} THEN <<0, 0>>
    ELSE LET c == CHOOSE d \in S : TRUE
             rest == SoftWeight(S \ {c})
             factor == RewardFactor(c, solve_unambig)
         IN <<rest[1] + ScoreOf(cands, c) * factor, rest[2] + factor>>

Heavier(w1, w2) == w1[1] > w2[1] \/ (w1[1] = w2[1] /\ w1[2] > w2[2])

\* The selector sets an optimal model of the axis instance can have.
OptimalSelections_AnyModel(x_dim, invalid) ==
    {S \in SUBSET names_map(x_dim) : Satisfiable(S, x_dim, invalid)}

OptimalSelections(x_dim, invalid) ==
    LET sat == {S \in SUBSET names_map(x_dim) : Satisfiable(S, x_dim, invalid)}
    IN {S \in sat : \A T \in sat : ~Heavier(SoftWeight(T), SoftWeight(S))}

\* The valuations old_model can give the children at conformance ci: any
\* feasible placement whose values are within MaxFree unless forced higher.
ModelValues(S, ci, x_dim) ==
    LET feas == Feasible(S, ci, x_dim)
    IN {v \in feas : \A ch \in Children : \A k \in 1..2 :
           v[ch][k] <= MaxFree \/ \A u \in feas : u[ch][k] >= v[ch][k]}

\* conf_idx = len(confs) // 2 (blackbox.py line 175), as a 1-based index.
MidIndex == (Len(confs) \div 2) + 1

\* The second check of an iteration is unsat: with the focus pinned, no
\* other placement of the children satisfies the selected constraints at
\* conformance conf_idx.
Unambiguous(S, x_dim) == Cardinality(Feasible(S, MidIndex, x_dim)) = 1

\* "if dry_run or solver.check() == z3.unsat" (blackbox.py line 191).
MayReturn_Always(S, x_dim) == TRUE

MayReturn(S, x_dim) == ~solve_unambig \/ Unambiguous(S, x_dim)

\* extract_model_valuations: the focus view and the children on one axis.
AxisValuation(ci, x_dim, v) ==
    [t \in {"root"} \cup Children |->
        IF t = "root" THEN FocusPair(confs[ci], x_dim) ELSE v[t]]

\* dict(x_min, **y_min): the rect of every target.
MergedValuation(xv, yv) ==
    [t \in {"root"} \cup Children |-> <<xv[t][1], yv[t][1], xv[t][2], yv[t][2]>>]

\* ---- the steps of BlackBoxPruner.__call__ ----

\* The inputs of a call.  Without unambiguity every free anchor of the
\* model is part of the result, so lists with no vertical candidate are run
\* with unambiguity, or when nothing survives filter_constraints.
PInit ==
    /\ InstIdle
    /\ HierIdle
    /\ RunIdle
    /\ cands \in CandidateLists
    /\ bounds \in BoundsOptions
    /\ solve_unambig \in BOOLEAN
    /\ \/ solve_unambig
       \/ \E k \in 1..Len(cands) : cands[k].constraint.y_id[2] \in vs_attrs
       \/ filter_constraints(cands) = {}
    /\ ppc = "call"
    /\ constraints = {}
    /\ invalid_candidates = {}
    /\ x_result = NoTriple
    /\ result = NoTriple
    /\ error = None

\* defaults: the anchors of self.example (blackbox.py lines 226-229).
Defaults == [t \in {"root"} \cup Children |-> FocusExample[t]]

\* Lines 223-230: filter_constraints and the return without a solve.
FilterConstraints ==
    /\ ppc = "call"
    /\ constraints' = filter_constraints(cands)
    /\ IF constraints' = {}
       THEN /\ result' = [output |-> {}, min_vals |-> Defaults, max_vals |-> Defaults]
            /\ ppc' = "done"
       ELSE /\ result' = result
            /\ ppc' = "soft"
    /\ UNCHANGED <<cands, bounds, solve_unambig, invalid_candidates, x_result, error>>
    /\ UNCHANGED pframe

\* The exception the loop of lines 242-250 raises on constraint c, if any.
SoftErrors ==
    {IF MixedDimensions(c) THEN "bad constraint with mixed dimensions" ELSE "KeyError" :
        c \in {d \in constraints : MixedDimensions(d) \/ d \in MissingWeight(constraints, cands)}}

\* Lines 232-264: the biases, one soft selector per constraint and the hard
\* clauses of every conformance.
AddSoftConstraints ==
    /\ ppc = "soft"
    /\ IF SoftErrors # {}
       THEN /\ error' \in SoftErrors
            /\ ppc' = "raised"
       ELSE /\ error' = error
            /\ ppc' = "solve_x"
    /\ UNCHANGED <<cands, bounds, solve_unambig, constraints, invalid_candidates,
                   x_result, result>>
    /\ UNCHANGED pframe

\* The axis synth_unambiguous is working on.
Solving(x_dim) == ppc = IF x_dim THEN "solve_x" ELSE "solve_y"

\* An iteration of synth_unambiguous that returns (lines 166-198); after the
\* vertical instance __call__ returns (line 277).
SynthReturn ==
    \E x_dim \in BOOLEAN :
        /\ Solving(x_dim)
        /\ \E new_cand \in OptimalSelections(x_dim, invalid_candidates) :
            /\ MayReturn(new_cand, x_dim)
            /\ \E vmin \in ModelValues(new_cand, 1, x_dim),
                  vmax \in ModelValues(new_cand, Len(confs), x_dim) :
                LET axis == [cs |-> new_cand,
                             min |-> AxisValuation(1, x_dim, vmin),
                             max |-> AxisValuation(Len(confs), x_dim, vmax)]
                IN IF x_dim
                   THEN /\ x_result' = axis
                        /\ result' = result
                        /\ ppc' = "solve_y"
                   ELSE /\ x_result' = x_result
                        /\ result' = [output |-> x_result.cs \cup axis.cs,
                                      min_vals |-> MergedValuation(x_result.min, axis.min),
                                      max_vals |-> MergedValuation(x_result.max, axis.max)]
                        /\ ppc' = "done"
        /\ invalid_candidates' = {}
        /\ UNCHANGED <<cands, bounds, solve_unambig, constraints, error>>
        /\ UNCHANGED pframe

\* An iteration that finds a second placement (lines 199-205): the selector
\* set is blocked, or 'inconceivable' is raised if it already was.
SynthRefine ==
    \E x_dim \in BOOLEAN :
        /\ Solving(x_dim)
        /\ \E new_cand \in OptimalSelections(x_dim, invalid_candidates) :
            /\ ~MayReturn(new_cand, x_dim)
            /\ IF new_cand \in invalid_candidates
               THEN /\ error' = "inconceivable"
                    /\ ppc' = "raised"
                    /\ invalid_candidates' = invalid_candidates
               ELSE /\ error' = error
                    /\ ppc' = ppc
                    /\ invalid_candidates' = invalid_candidates \cup {new_cand}
        /\ UNCHANGED <<cands, bounds, solve_unambig, constraints, x_result, result>>
        /\ UNCHANGED pframe

\* The first check of an iteration is not sat (lines 209-212).
SynthFail ==
    \E x_dim \in BOOLEAN :
        /\ Solving(x_dim)
        /\ OptimalSelections(x_dim, invalid_candidates) = {}
        /\ error' = "cant find a solution"
        /\ ppc' = "raised"
        /\ UNCHANGED <<cands, bounds, solve_unambig, constraints, invalid_candidates,
                       x_result, result>>
        /\ UNCHANGED pframe

PNext ==
    \/ FilterConstraints
    \/ AddSoftConstraints
    \/ SynthReturn
    \/ SynthRefine
    \/ SynthFail

SpecPrune == PInit /\ [][PNext]_vars

-----------------------------------------------------------------------------
(* HierarchicalPruner (hierarchical_decomp/hierarchical.py)                 *)
(*                                                                          *)
(* self.hierarchy = examples[0] is root > [a, c] with a > [b].  One example *)
(* is given, so focus_examples is always the subtree of the focus.  The     *)
(* call bb_solver(relevant) is the BlackBoxPruner modelled above; a pass of *)
(* the worklist loop takes any outcome its code allows on the relevant      *)
(* candidates: the empty return of lines 225-230, a subset of the filtered  *)
(* constraints with valuations for the children, or an exception.           *)

\* Largest number of candidates in the list given to the hierarchical pruner.
MaxHierCands == 3

HierViews == {"root", "a", "b", "c"}

\* IView.children, in input order.
children(v) ==
    CASE v = "root" -> <<"a", "c">>
      [] v = "a" -> <<"b">>
      [] OTHER -> <<>>

ChildNames(v) == {children(v)[k] : k \in 1..Len(children(v))}

\* IView.parent ("none" for the root).
HierParent(v) ==
    CASE v \in {"a", "c"} -> "root"
      [] v = "b" -> "a"
      [] OTHER -> "none"

\* The rect of every view in examples[0].
HierExample ==
    [v \in HierViews |->
        CASE v = "root" -> <<0, 0, 4, 4>>
          [] v = "a" -> <<0, 0, 2, 2>>
          [] v = "b" -> <<0, 0, 1, 1>>
          [] v = "c" -> <<2, 0, 4, 2>>]

\* focus.is_parent_of_name(name) on the hierarchy.
focus_is_parent_of_name_Descendant(focus, name) ==
    name \in ChildNames(focus) \cup UNION {ChildNames(ch) : ch \in ChildNames(focus)}

focus_is_parent_of_name(focus, name) == name \in ChildNames(focus)

RECURSIVE relevant_from(_, _, _)
\* The loops of relevant_constraint over focus.children, from child k on:
\* the first child that is an endpoint decides.
relevant_from(focus, c, k) ==
    IF k > Len(children(focus)) THEN FALSE
    ELSE LET child == children(focus)[k]
         IN IF c.x_id # NoAnchor
            THEN IF child = c.x_id[1]
                 THEN focus = c.y_id[1] \/ focus_is_parent_of_name(focus, c.y_id[1])
                 ELSE IF child = c.y_id[1]
                 THEN focus = c.x_id[1] \/ focus_is_parent_of_name(focus, c.x_id[1])
                 ELSE relevant_from(focus, c, k + 1)
            ELSE IF child = c.y_id[1] THEN TRUE
                 ELSE relevant_from(focus, c, k + 1)

\* HierarchicalPruner.relevant_constraint.
relevant_constraint_AllInFocus(focus, c) ==
    /\ c.y_id[1] \in {focus} \cup ChildNames(focus)
    /\ c.x_id # NoAnchor => c.x_id[1] \in {focus} \cup ChildNames(focus)

relevant_constraint(focus, c) == relevant_from(focus, c, 1)

\* relevant = [c for c in cands if self.relevant_constraint(focus, c.constraint)]
Relevant(focus) ==
    LET keep(cd) == relevant_constraint(focus, cd.constraint)
    IN SelectSeq(h_cands, keep)

\* The candidates the lists are drawn from, in the order they keep.
HierPool == <<
    ConstraintCandidate(LinearConstraint("pos_ltrb_offset", <<"a", "left">>, <<"root", "left">>, 1, 0, "=", "required"), 2),
    ConstraintCandidate(LinearConstraint("pos_ltrb_offset", <<"c", "left">>, <<"a", "right">>, 1, 0, "=", "required"), 1),
    ConstraintCandidate(LinearConstraint("pos_ltrb_offset", <<"b", "left">>, <<"a", "left">>, 1, 0, "=", "required"), 1),
    ConstraintCandidate(ConstantConstraint("size_constant", <<"b", "width">>, 1, "=", "required"), 1),
    ConstraintCandidate(ConstantConstraint("size_constant", <<"root", "width">>, 4, "=", "required"), 1),
    ConstraintCandidate(LinearConstraint("size_offset", <<"a", "right">>, <<"a", "width">>, 1, 0, "=", "required"), 1),
    ConstraintCandidate(LinearConstraint("pos_ltrb_offset", <<"b", "left">>, <<"root", "left">>, 1, 0, "=", "required"), 1)
>>

HierCandidateLists ==
    {SubSeqOf(HierPool, idx) :
        idx \in {s \in SUBSET (1..Len(HierPool)) : Cardinality(s) <= MaxHierCands}}

\* The conformance that has the anchor values of rect r.
ConfOf(r) == Conformance(r[3] - r[1], r[4] - r[2], r[1], r[2])

\* self.min_conf / self.max_conf of HierarchicalPruner.__init__: the root of
\* the example, or a width range around it when bounds give one.
HierStartConfs ==
    LET r == HierExample["root"]
    IN {<<ConfOf(r), ConfOf(r)>>,
        <<ConfOf(<<r[1], r[2], r[3] - 2, r[4]>>), ConfOf(<<r[1], r[2], r[3] + 2, r[4]>>)>>}

\* (clo, chi) of a child as read from the mins / maxes of a solve: the
\* values of the example, or a width that grows by one at the maximum.
ChildRanges(child) ==
    LET r == HierExample[child]
    IN {<<ConfOf(r), ConfOf(r)>>,
        <<ConfOf(r), ConfOf(<<r[1], r[2], r[3] + 1, r[4]>>)>>}

\* defaults (blackbox.py 226-230): both valuations are the example's.
DefaultRanges(focus) ==
    [ch \in ChildNames(focus) |-> <<ConfOf(HierExample[ch]), ConfOf(HierExample[ch])>>]

\* The loop of blackbox.py 242-250 raises on the relevant candidates.
PrunerSoftError(rel) ==
    LET cs == filter_constraints(rel)
    IN \E c \in cs : MixedDimensions(c) \/ c \in MissingWeight(cs, rel)

\* The (focus_output, mins, maxes) bb_solver(relevant) can return, the
\* valuations given as the (clo, chi) of every child.
PrunerReturns(focus, rel) ==
    LET cs == filter_constraints(rel)
    IN IF cs = {}
       THEN {[focus_output |-> {}, ranges |-> DefaultRanges(focus)]}
       ELSE IF PrunerSoftError(rel) THEN {}
       ELSE {[focus_output |-> out, ranges |-> rg] :
                out \in SUBSET cs,
                rg \in {f \in [ChildNames(focus) -> UNION {ChildRanges(ch) : ch \in ChildNames(focus)}] :
                            \A ch \in ChildNames(focus) : f[ch] \in ChildRanges(ch)}}

\* bb_solver(relevant) can raise: in the loop of lines 242-250, or
\* 'cant find a solution' once the unambiguity loop has blocked every set.
PrunerMayRaise(focus, rel) ==
    /\ filter_constraints(rel) # {}
    /\ h_unambig \/ PrunerSoftError(rel)

\* The worklist after the loop of lines 171-179 pushed the children of focus.
PushChildren_FirstOnly(rest, focus, ranges) ==
    rest \o [k \in 1..(IF children(focus) = <<>> THEN 0 ELSE 1) |->
                [focus |-> children(focus)[k],
                 min_c |-> ranges[children(focus)[k]][1],
                 max_c |-> ranges[children(focus)[k]][2]]]

PushChildren(rest, focus, ranges) ==
    rest \o [k \in 1..Len(children(focus)) |->
                [focus |-> children(focus)[k],
                 min_c |-> ranges[children(focus)[k]][1],
                 max_c |-> ranges[children(focus)[k]][2]]]

\* Lines 143-152: the worklist starts with the root of the hierarchy.
HInit ==
    /\ InstIdle
    /\ PrunerIdle
    /\ RunIdle
    /\ h_cands \in HierCandidateLists
    /\ h_unambig \in BOOLEAN
    /\ hpc = "loop"
    /\ \E start \in HierStartConfs :
        worklist = <<[focus |-> "root", min_c |-> start[1], max_c |-> start[2]]>>
    /\ output_constrs = {}
    /\ solved = <<>>
    /\ h_result = {}

\* worklist.pop(): the last entry and what is left.
Popped == worklist[Len(worklist)]
Rest == SubSeq(worklist, 1, Len(worklist) - 1)

\* One pass of the loop (lines 155-181) whose pruner call returns.
HierPass ==
    /\ hpc = "loop"
    /\ worklist # <<>>
    /\ \E r \in PrunerReturns(Popped.focus, Relevant(Popped.focus)) :
        /\ output_constrs' = output_constrs \cup r.focus_output
        /\ worklist' = PushChildren(Rest, Popped.focus, r.ranges)
        /\ solved' = Append(solved, [focus |-> Popped.focus,
                                     relevant |-> Relevant(Popped.focus),
                                     focus_output |-> r.focus_output])
    /\ UNCHANGED <<h_cands, h_unambig, hpc, h_result>>
    /\ UNCHANGED hframe

\* A pass whose pruner call raises (line 163): __call__ ends.
HierRaise ==
    /\ hpc = "loop"
    /\ worklist # <<>>
    /\ PrunerMayRaise(Popped.focus, Relevant(Popped.focus))
    /\ worklist' = Rest
    /\ hpc' = "raised"
    /\ UNCHANGED <<h_cands, h_unambig, output_constrs, solved, h_result>>
    /\ UNCHANGED hframe

\* Lines 183-190: the worklist is empty, the accumulated set is returned.
HierReturn ==
    /\ hpc = "loop"
    /\ worklist = <<>>
    /\ h_result' = output_constrs
    /\ hpc' = "done"
    /\ UNCHANGED <<h_cands, h_unambig, worklist, output_constrs, solved>>
    /\ UNCHANGED hframe

HNext ==
    \/ HierPass
    \/ HierRaise
    \/ HierReturn

SpecHier == HInit /\ [][HNext]_vars

-----------------------------------------------------------------------------
(* synthesize (pipeline/run.py)                                             *)
(*                                                                          *)
(* load -> instantiate -> learn -> prune.  A view tree is its name and the  *)
(* list of its children; a template and a candidate are named by the view  *)
(* of their y anchor.  The instantiator and the learners are the ones of    *)
(* sections 4.2 and 4.3 of the specification.                               *)

\* Largest number of examples in an input.
MaxExamples == 2

\* ViewLoader.load_dict on {"name": n, "children": ch}.
View(n, ch) == [name |-> n, children |-> ch]

\* The view trees examples are drawn from.
SynthTrees ==
    {View("root", <<View("a", <<>>)>>),
     View("root", <<View("a", <<>>), View("b", <<>>)>>),
     View("root", <<View("b", <<>>), View("a", <<>>)>>),
     View("root", <<View("a", <<View("b", <<>>)>>)>>),
     View("main", <<View("a", <<>>)>>)}

RECURSIVE is_isomorphic(_, _)
\* View.is_isomorphic with include_names=True.
is_isomorphic(self, view) ==
    IF Len(self.children) # Len(view.children) THEN FALSE
    ELSE IF self.name # view.name THEN FALSE
    ELSE IF Len(self.children) = 0 THEN TRUE
    ELSE \A k \in 1..Len(self.children) :
            is_isomorphic(self.children[k], view.children[k])

RECURSIVE ViewNames(_)
\* The names of the views View.__iter__ yields.
ViewNames(v) ==
    {v.name} \cup UNION {ViewNames(v.children[k]) : k \in 1..Len(v.children)}

RECURSIVE ChildIndexError(_, _)
\* fe.children[ci] (hierarchical.py 179) is out of range somewhere below the
\* view focus of the hierarchy, fe being the same position of an example.
ChildIndexError(focus, fe) ==
    \/ Len(fe.children) < Len(focus.children)
    \/ \E k \in 1..Len(focus.children) :
        ChildIndexError(focus.children[k], fe.children[k])

\* The exceptions lines 101-109 can end with.
PruneErrors ==
    IF s_pruning \notin {"baseline", "hierarchical"} THEN {"ValueError"}
    ELSE (IF s_candidates # {} THEN {"Exception"} ELSE {})
         \cup (IF /\ s_pruning = "hierarchical"
                  /\ \E k \in 1..Len(s_examples) :
                        ChildIndexError(s_examples[1], s_examples[k])
               THEN {"IndexError"} ELSE {})

\* synthesize is called on the input and options.
RunInit ==
    /\ InstIdle
    /\ PrunerIdle
    /\ HierIdle
    /\ RoundTripIdle
    /\ EvalIdle
    /\ s_examples \in UNION {[1..n -> SynthTrees] : n \in 1..MaxExamples}
    /\ s_pruning \in {"baseline", "hierarchical", "greedy"}
    /\ spc = "load"
    /\ s_templates = {}
    /\ s_candidates = {}
    /\ s_result = {}
    /\ s_error = None

\* Lines 40-57: every example is loaded on its own.
RunLoad ==
    /\ spc = "load"
    /\ spc' = "instantiate"
    /\ UNCHANGED <<s_examples, s_pruning, s_templates, s_candidates, s_result, s_error>>
    /\ UNCHANGED sframe

\* Lines 60-68: templates over the anchors of the reference example.
RunInstantiate ==
    /\ spc = "instantiate"
    /\ s_templates' = ViewNames(s_examples[1])
    /\ spc' = "learn"
    /\ UNCHANGED <<s_examples, s_pruning, s_candidates, s_result, s_error>>
    /\ UNCHANGED sframe

\* Lines 71-85: a template with no fit gives an empty list, nothing raises.
RunLearn ==
    /\ spc = "learn"
    /\ s_candidates' \in SUBSET s_templates
    /\ spc' = "prune"
    /\ UNCHANGED <<s_examples, s_pruning, s_templates, s_result, s_error>>
    /\ UNCHANGED sframe

\* Lines 88-118: the pruner returns and the result is built.
RunPrune ==
    /\ spc = "prune"
    /\ s_pruning \in {"baseline", "hierarchical"}
    /\ "IndexError" \notin PruneErrors
    /\ s_result' \in SUBSET s_candidates
    /\ spc' = "done"
    /\ UNCHANGED <<s_examples, s_pruning, s_templates, s_candidates, s_error>>
    /\ UNCHANGED sframe

\* Lines 101-109 raise.
RunRaise ==
    /\ spc = "prune"
    /\ s_error' \in PruneErrors
    /\ spc' = "raised"
    /\ UNCHANGED <<s_examples, s_pruning, s_templates, s_candidates, s_result>>
    /\ UNCHANGED sframe

RunNext ==
    \/ RunLoad
    \/ RunInstantiate
    \/ RunLearn
    \/ RunPrune
    \/ RunRaise

SpecSynth == RunInit /\ [][RunNext]_vars

-----------------------------------------------------------------------------
(* Constraint round trip: IConstraint.to_dict (constraint/constraint.py)    *)
(* and dict_to_constraint (tests/test_evaluation_simple.py)                 *)
(*                                                                          *)
(* A Python string is the sequence of its tokens: the view name "a.b" is    *)
(* <<"a", ".", "b">>, str(Rational(3, 2)) is <<"3", "/", "2">>.  A rational *)
(* is <<numerator, denominator>> in lowest terms, a kind is the name of its *)
(* ConstraintKind member, an op is the name of its operator function and a  *)
(* priority is its tuple of strengths.                                      *)

\* Largest sample_count of a serialized constraint.
MaxSampleCount == 2

\* Largest numerator and denominator of a serialized rational.
MaxRational == 3

PRIORITY_REQUIRED == <<1000, 1000, 1000>>
Priorities == {PRIORITY_REQUIRED, <<1, 0, 0>>, <<0, 1, 0>>, <<0, 0, 1>>}

\* str.upper() on the words that are parsed.
Upper(s) ==
    CASE s = "left" -> "LEFT"
      [] s = "width" -> "WIDTH"
      [] s = "pos_ltrb_offset" -> "POS_LTRB_OFFSET"
      [] s = "pos_lrtb_offset" -> "POS_LRTB_OFFSET"
      [] s = "size_ratio" -> "SIZE_RATIO"
      [] s = "size_constant" -> "SIZE_CONSTANT"
      [] OTHER -> s

\* str(sympy.Rational(p, q)).
RationalStr(r) ==
    IF r[2] = 1 THEN <<ToString(r[1])>> ELSE <<ToString(r[1]), "/", ToString(r[2])>>

\* sym.Rational(s) on such a string.
ParseRational(s) ==
    LET num(t) == CHOOSE n \in 0..MaxRational : ToString(n) = t
    IN IF Len(s) = 1 THEN <<num(s[1]), 1>> ELSE <<num(s[1]), num(s[3])>>

\* AnchorID.__str__: f"{view_name}.{attribute.value}".
AnchorStr(id) == id[1] \o <<".", id[2]>>

RECURSIVE Split(_)
\* anchor_str.split('.')
Split(s) ==
    IF s = <<>> THEN << <<>> >>
    ELSE LET rest == Split(Tail(s))
         IN IF Head(s) = "." THEN << <<>> >> \o rest
            ELSE << <<Head(s)>> \o rest[1] >> \o Tail(rest)

\* parse_anchor_id, when len(parts) = 2: Attribute[attr_name.upper()].
parse_anchor_id(anchor_str) ==
    LET parts == Split(anchor_str)
        name == Upper(parts[2][1])
    IN <<parts[1], CASE name = "LEFT" -> "left" [] name = "WIDTH" -> "width">>

\* ConstantConstraint.to_dict / LinearConstraint.to_dict.
to_dict(c) ==
    LET common == [y |-> AnchorStr(c.y_id),
                   op |-> CASE c.op = "eq" -> "=" [] c.op = "le" -> "<=" [] c.op = "ge" -> ">=",
                   b |-> RationalStr(c.b),
                   strength |-> CASE c.priority = PRIORITY_REQUIRED -> "required"
                                  [] c.priority = <<1, 0, 0>> -> "strong"
                                  [] c.priority = <<0, 1, 0>> -> "medium"
                                  [] c.priority = <<0, 0, 1>> -> "weak",
                   kind |-> CASE c.kind = "POS_LTRB_OFFSET" -> "pos_lrtb_offset"
                              [] c.kind = "SIZE_RATIO" -> "size_ratio"
                              [] c.kind = "SIZE_CONSTANT" -> "size_constant"]
    IN IF c.x_id = NoAnchor THEN common
       ELSE [y |-> common.y, op |-> common.op, a |-> RationalStr(c.a),
             x |-> AnchorStr(c.x_id), b |-> common.b,
             strength |-> common.strength, kind |-> common.kind]

\* parse_anchor_id raises ValueError('Invalid anchor format') in dict_to_constraint.
ParseRaises(d) ==
    \/ Len(Split(d.y)) # 2
    \/ "x" \in DOMAIN d /\ Len(Split(d.x)) # 2

\* dict_to_constraint, when it returns.
dict_to_constraint(d) ==
    LET upper == Upper(d.kind)
        kind == IF upper = "POS_LRTB_OFFSET" THEN "POS_LTRB_OFFSET" ELSE upper
        op == CASE d.op = "=" -> "eq" [] d.op = "<=" -> "le" [] d.op = ">=" -> "ge" [] OTHER -> "eq"
    IN IF "x" \notin DOMAIN d
       THEN [ConstantConstraint(kind, parse_anchor_id(d.y), ParseRational(d.b), op, PRIORITY_REQUIRED)
                EXCEPT !.a = <<0, 1>>]
       ELSE LinearConstraint(kind, parse_anchor_id(d.y), parse_anchor_id(d.x),
                             ParseRational(d.a), ParseRational(d.b), op, PRIORITY_REQUIRED)

\* The concrete constraints that are serialized.
RoundTripConstraints ==
    LET ids == {<<name, attr>> : name \in {<<"a">>, <<"a", ".", "b">>}, attr \in {"left", "width"}}
        bs == {<<0, 1>>, <<3, 2>>}
        ops == {"eq", "le", "ge"}
        counts == 0..MaxSampleCount
    IN {[ConstantConstraint("SIZE_CONSTANT", y, b, op, p)
            EXCEPT !.a = <<0, 1>>, !.sample_count = n, !.is_falsified = f] :
            y \in ids, b \in bs, op \in ops, p \in Priorities, n \in counts, f \in BOOLEAN}
       \cup
       {[LinearConstraint(k, y, <<<<"root">>, "left">>, a, b, op, p)
            EXCEPT !.sample_count = n, !.is_falsified = f] :
            k \in {"POS_LTRB_OFFSET", "SIZE_RATIO"}, y \in ids, a \in {<<1, 1>>, <<1, 2>>},
            b \in bs, op \in ops, p \in Priorities, n \in counts, f \in BOOLEAN}

RtInit ==
    /\ InstIdle
    /\ PrunerIdle
    /\ HierIdle
    /\ SynthIdle
    /\ EvalIdle
    /\ r_c \in RoundTripConstraints
    /\ rpc = "start"
    /\ r_dict = NoRecord
    /\ r_parsed = NoRecord

\* c.to_dict()
ToDict ==
    /\ rpc = "start"
    /\ r_dict' = to_dict(r_c)
    /\ rpc' = "serialized"
    /\ UNCHANGED <<r_c, r_parsed>>
    /\ UNCHANGED rframe

\* dict_to_constraint(d) returns a constraint.
Parse ==
    /\ rpc = "serialized"
    /\ ~ParseRaises(r_dict)
    /\ r_parsed' = dict_to_constraint(r_dict)
    /\ rpc' = "parsed"
    /\ UNCHANGED <<r_c, r_dict>>
    /\ UNCHANGED rframe

\* dict_to_constraint(d) raises ValueError.
ParseError ==
    /\ rpc = "serialized"
    /\ ParseRaises(r_dict)
    /\ rpc' = "raised"
    /\ UNCHANGED <<r_c, r_dict, r_parsed>>
    /\ UNCHANGED rframe

RtNext ==
    \/ ToDict
    \/ Parse
    \/ ParseError

SpecRoundTrip == RtInit /\ [][RtNext]_vars

-----------------------------------------------------------------------------
(* evaluate_layouts and group_by_isomorphic_structure (evaluation/metrics.py) *)
(*                                                                          *)
(* The examples are view trees as in synthesize; a member of a group is     *)
(* given by its position in examples.  What evaluate_single_example and the *)
(* two metrics give on an example is any pair of Measures; an average       *)
(* sum / len is the pair <<sum, len>>, float('inf') is <<1, 0>>.            *)

\* Largest number of examples passed to evaluate_layouts.
MaxEvalExamples == 3

\* The (rmsd, accuracy) one example can get.
Measures == {<<0, 100>>, <<1, 50>>}

RECURSIVE SumOf(_)
SumOf(seq) == IF seq = <<>> THEN 0 ELSE Head(seq) + SumOf(Tail(seq))

\* evaluate_single_structure on the examples at the positions idx, the
\* example at position k measuring m[k].
evaluate_single_structure(idx, m) ==
    LET rmsds == [k \in 1..Len(idx) |-> m[idx[k]][1]]
        accuracies == [k \in 1..Len(idx) |-> m[idx[k]][2]]
    IN [rmsd |-> IF rmsds # <<>> THEN <<SumOf(rmsds), Len(rmsds)>> ELSE <<1, 0>>,
        accuracy |-> IF accuracies # <<>> THEN <<SumOf(accuracies), Len(accuracies)>> ELSE <<0, 1>>,
        num_examples |-> Len(idx),
        per_example_rmsd |-> rmsds,
        per_example_accuracy |-> accuracies]

\* The group started at position i (lines 250-260): i and, in input order,
\* the later positions not yet assigned whose example is isomorphic to it.
IsoGroup_NextOnly(i) ==
    <<i>> \o SelectSeq([k \in 1..(IF i < Len(e_examples) THEN 1 ELSE 0) |-> i + k],
                       LAMBDA j : /\ j \notin e_assigned
                                  /\ is_isomorphic(e_examples[i], e_examples[j]))

IsoGroup(i) ==
    <<i>> \o SelectSeq([k \in 1..(Len(e_examples) - i) |-> i + k],
                       LAMBDA j : /\ j \notin e_assigned
                                  /\ is_isomorphic(e_examples[i], e_examples[j]))

\* evaluate_layouts is called.
EInit ==
    /\ InstIdle
    /\ PrunerIdle
    /\ HierIdle
    /\ SynthIdle
    /\ RoundTripIdle
    /\ e_examples \in UNION {[1..n -> SynthTrees] : n \in 0..MaxEvalExamples}
    /\ e_conditional \in BOOLEAN
    /\ epc = "call"
    /\ e_i = 1
    /\ e_assigned = {}
    /\ e_groups = <<>>
    /\ e_result = NoRecord

\* Lines 291-298: no examples.
EvalEmpty ==
    /\ epc = "call"
    /\ e_examples = <<>>
    /\ e_result' = [rmsd |-> <<1, 0>>, accuracy |-> <<0, 1>>, num_examples |-> 0,
                    per_example_rmsd |-> <<>>, per_example_accuracy |-> <<>>]
    /\ epc' = "done"
    /\ UNCHANGED <<e_examples, e_conditional, e_i, e_assigned, e_groups>>
    /\ UNCHANGED eframe

\* Lines 300-302: the result of evaluate_single_structure is returned.
EvalSingle ==
    /\ epc = "call"
    /\ e_examples # <<>>
    /\ ~e_conditional
    /\ \E m \in [1..Len(e_examples) -> Measures] :
        e_result' = evaluate_single_structure([k \in 1..Len(e_examples) |-> k], m)
    /\ epc' = "done"
    /\ UNCHANGED <<e_examples, e_conditional, e_i, e_assigned, e_groups>>
    /\ UNCHANGED eframe

\* Line 305: group_by_isomorphic_structure is entered (lines 242-243).
GroupStart ==
    /\ epc = "call"
    /\ e_examples # <<>>
    /\ e_conditional
    /\ epc' = "group"
    /\ UNCHANGED <<e_examples, e_conditional, e_i, e_assigned, e_groups, e_result>>
    /\ UNCHANGED eframe

\* Lines 245-247: example i is already in a group.
GroupSkip ==
    /\ epc = "group"
    /\ e_i <= Len(e_examples)
    /\ e_i \in e_assigned
    /\ e_i' = e_i + 1
    /\ UNCHANGED <<e_examples, e_conditional, epc, e_assigned, e_groups, e_result>>
    /\ UNCHANGED eframe

\* Lines 249-262: example i starts a group.
GroupNew ==
    /\ epc = "group"
    /\ e_i <= Len(e_examples)
    /\ e_i \notin e_assigned
    /\ e_groups' = Append(e_groups, IsoGroup(e_i))
    /\ e_assigned' = e_assigned \cup {IsoGroup(e_i)[k] : k \in 1..Len(IsoGroup(e_i))}
    /\ e_i' = e_i + 1
    /\ UNCHANGED <<e_examples, e_conditional, epc, e_result>>
    /\ UNCHANGED eframe

\* Lines 264 and 307-344: the groups are evaluated and aggregated.
EvalGroups ==
    /\ epc = "group"
    /\ e_i > Len(e_examples)
    /\ \E m \in [1..Len(e_examples) -> Measures] :
        LET group_results == [g \in 1..Len(e_groups) |-> evaluate_single_structure(e_groups[g], m)]
            all_rmsds == [k \in 1..Len(e_examples) |-> m[k][1]]
            all_accuracies == [k \in 1..Len(e_examples) |-> m[k][2]]
        IN e_result' = [rmsd |-> <<SumOf(all_rmsds), Len(all_rmsds)>>,
                        accuracy |-> <<SumOf(all_accuracies), Len(all_accuracies)>>,
                        num_examples |-> Len(e_examples),
                        num_groups |-> Len(e_groups),
                        groups |-> group_results]
    /\ epc' = "done"
    /\ UNCHANGED <<e_examples, e_conditional, e_i, e_assigned, e_groups>>
    /\ UNCHANGED eframe

ENext ==
    \/ EvalEmpty
    \/ EvalSingle
    \/ GroupStart
    \/ GroupSkip
    \/ GroupNew
    \/ EvalGroups

SpecEval == EInit /\ [][ENext]_vars

-----------------------------------------------------------------------------
(* Properties of template instantiation                                     *)

Done == ipc = "done"

Anchors == 1..NumAnchors(shape)

\* The (y, x) pairs of the linear templates returned.
LinearPairs == {<<sketches[k].y, sketches[k].x>> : k \in {m \in 1..Len(sketches) : sketches[m].x # 0}}

SameAxisFamily(i, j) == (is_horizontal(i) /\ is_horizontal(j)) \/ (is_vertical(i) /\ is_vertical(j))

IsChildOf(c, p) == ParentOf(shape, AnchorView(shape, c)) = AnchorView(shape, p)
AreSiblings(i, j) ==
    /\ AnchorView(shape, i) # AnchorView(shape, j)
    /\ ParentOf(shape, AnchorView(shape, i)) = ParentOf(shape, AnchorView(shape, j))

\* Some anchor of the view of i and some anchor of the view of j, both of
\* the given family, are visible.
ViewsVisibleOn(i, j, horizontal) ==
    \E p \in Anchors, q \in Anchors :
        /\ AnchorView(shape, p) = AnchorView(shape, i)
        /\ AnchorView(shape, q) = AnchorView(shape, j)
        /\ (IF horizontal THEN is_horizontal(p) /\ is_horizontal(q)
                          ELSE is_vertical(p) /\ is_vertical(q))
        /\ <<p, q>> \in visible_matrix

C4_AspectRatio(i, j) ==
    AnchorView(shape, i) = AnchorView(shape, j) /\ AnchorType(i) = "width" /\ AnchorType(j) = "height"
C4_ParentRelative(i, j) ==
    IsChildOf(j, i) /\ is_size(i) /\ AnchorType(i) = AnchorType(j)
C4_Offset(i, j) ==
    /\ is_position(i) /\ is_position(j) /\ <<i, j>> \in visible_matrix
    /\ \/ IsChildOf(j, i) /\ AnchorType(i) = AnchorType(j)
       \/ AreSiblings(i, j)
            /\ <<AnchorType(i), AnchorType(j)>> \in {<<"right", "left">>, <<"bottom", "top">>}
C4_Alignment(i, j) ==
    /\ AreSiblings(i, j) /\ is_position(i) /\ AnchorType(i) = AnchorType(j)
    /\ ViewsVisibleOn(i, j, ~is_horizontal(i))
C4_Mask(i, j) ==
    C4_AspectRatio(i, j) \/ C4_ParentRelative(i, j) \/ C4_Offset(i, j) \/ C4_Alignment(i, j)

C5_AxisPurity ==
    Done => \A q \in LinearPairs : SameAxisFamily(q[1], q[2])

\* C5 amended: every linear template returned between two different views
\* has y and x in the same axis family, and a linear template within one
\* view is an aspect ratio with y = width and x = height.
C5_AxisPurityBetweenViews ==
    Done => \A q \in LinearPairs :
                IF AnchorView(shape, q[1]) = AnchorView(shape, q[2])
                THEN AnchorType(q[1]) = "width" /\ AnchorType(q[2]) = "height"
                ELSE SameAxisFamily(q[1], q[2])

\* C5 witness: a result with a size template between a parent and its child
\* and an aspect-ratio template.
C5_Witness ==
    /\ Done
    /\ \E q \in LinearPairs : IsChildOf(q[2], q[1]) /\ is_size(q[1])
    /\ \E q \in LinearPairs : AnchorView(shape, q[1]) = AnchorView(shape, q[2])

\* C6 as stated: every linear template between a child and its parent has
\* the child's anchor as y and the parent's anchor as x.
C6_ChildIsY ==
    Done => \A q \in LinearPairs :
                (IsChildOf(q[1], q[2]) \/ IsChildOf(q[2], q[1])) => IsChildOf(q[1], q[2])

IsDualUnordered(i, j) ==
    {AnchorType(i), AnchorType(j)} \in {{"left", "right"}, {"top", "bottom"}}

\* C7 as stated: for two sibling edges that are visible and whose attributes
\* are {left, right} or {top, bottom}, the offset template is returned in
\* both orders.
C7_DualBothOrders ==
    Done =>
        LET linear == LinearPairs
        IN \A i \in Anchors, j \in Anchors :
               (AreSiblings(i, j) /\ IsDualUnordered(i, j) /\ <<i, j>> \in visible_matrix)
                   => (<<i, j>> \in linear /\ <<j, i>> \in linear)

\* C7 amended: dual_type is ordered.  For two sibling edges with attributes
\* {left, right} or {top, bottom}, the template y = i, x = j is returned
\* exactly when the anchors are visible and (attribute of i, attribute of j)
\* is (right, left) or (bottom, top); y = left, x = right and y = top,
\* x = bottom are never returned.
C7_DualOrdered ==
    Done =>
        LET linear == LinearPairs
        IN \A i \in Anchors, j \in Anchors :
               (AreSiblings(i, j) /\ IsDualUnordered(i, j))
                   => ((<<i, j>> \in linear)
                           <=> (<<i, j>> \in visible_matrix
                                  /\ AnchorType(i) \in {"right", "bottom"}))

\* C7 witness: two visible sibling edges, right and left, with the template
\* y = right, x = left returned.
C7_Witness ==
    /\ Done
    /\ \E i \in Anchors, j \in Anchors :
          /\ AreSiblings(i, j) /\ AnchorType(i) = "right" /\ AnchorType(j) = "left"
          /\ <<i, j>> \in visible_matrix /\ <<j, i>> \in visible_matrix
          /\ <<i, j>> \in LinearPairs

\* The coordinate of an edge anchor in the example being swept.
EdgePosition(i) ==
    LET r == examples[ex_idx][AnchorView(shape, i)]
    IN CASE AnchorType(i) = "left" -> Left(r)
         [] AnchorType(i) = "right" -> Right(r)
         [] AnchorType(i) = "top" -> Top(r)
         [] OTHER -> Bottom(r)

StrictlyBetween(x, u, v) == (u < x /\ x < v) \/ (v < x /\ x < u)

\* C8 as stated: on the sweep line last cast, between two anchors of
\* different views that the sweep marks visible lies no edge of another
\* view that the line intersects (nor a root edge).
C8_VisibilitySound ==
    (ipc \in {"vertical", "horizontal", "return"} /\ Len(intersecting_anchors) > 0) =>
        \A k \in 1..(Len(intersecting_anchors) - 1) :
            LET p == intersecting_anchors[k]
                q == intersecting_anchors[k + 1]
            IN AnchorView(shape, p) # AnchorView(shape, q) =>
                   \A m \in 1..Len(intersecting_anchors) :
                       LET e == intersecting_anchors[m]
                       IN AnchorView(shape, e) \notin {AnchorView(shape, p), AnchorView(shape, q)}
                              => ~StrictlyBetween(EdgePosition(e), EdgePosition(p), EdgePosition(q))

\* The matrix of one example when every tie of the sort is resolved one
\* fixed way.
FixedOrderMatrix(sh, ex) ==
    UNION ({SweepMarks(sh, WithRootEdges(sh,
                CHOOSE s \in SortedOrders(HorizontalEdgesAt(sh, ex, c), sh, ex, TRUE) : TRUE,
                TRUE), TRUE) : c \in VerticalEventsOf(sh, ex)}
           \cup
           {SweepMarks(sh, WithRootEdges(sh,
                CHOOSE s \in SortedOrders(VerticalEdgesAt(sh, ex, c), sh, ex, FALSE) : TRUE,
                FALSE), FALSE) : c \in HorizontalEventsOf(sh, ex)})

\* C9 as stated: the list returned does not depend on the order in which
\* the event sets and the tree query results are iterated: every run
\* returns the list of the run that resolves every tie one fixed way.
C9_Deterministic ==
    Done => sketches = SketchesOf(shape,
                UNION {FixedOrderMatrix(shape, examples[k]) : k \in 1..Len(examples)})

\* C10: the matrix compute_visibility_matrix builds and the union over the
\* examples are symmetric.
C10_VisibilitySymmetric ==
    /\ \A e \in example_visible_matrix : <<e[2], e[1]>> \in example_visible_matrix
    /\ \A e \in visible_matrix : <<e[2], e[1]>> \in visible_matrix

\* C10 witness: the union over two examples, holding an edge pair.
C10_Witness ==
    /\ Done
    /\ Len(examples) >= 2
    /\ \E e \in visible_matrix : AnchorType(e[1]) \in {"left", "right", "top", "bottom"}

-----------------------------------------------------------------------------
(* Properties of BlackBoxPruner                                             *)

\* __call__ has returned its triple.
Returned == ppc = "done"

\* __call__ has returned from the solves (a constraint survived filtering).
ReturnedFromSolve == Returned /\ constraints # {}

\* The constraints of the returned list that belong to one axis.
SelectedOn(x_dim) == {c \in result.output : is_x_constr(c) = x_dim}

\* Rect rc lies within rect rp.
RectWithin(rc, rp) == rp[1] <= rc[1] /\ rc[3] <= rp[3] /\ rp[2] <= rc[2] /\ rc[4] <= rp[4]

\* C1: whenever the pruner returns, every child rect of the model it used
\* lies within its parent's rect at the sampled conformances (stated on the
\* two conformances whose valuations the pruner returns).
C1_Containment ==
    Returned =>
        \A ch \in Children :
            /\ RectWithin(result.min_vals[ch], result.min_vals["root"])
            /\ RectWithin(result.max_vals[ch], result.max_vals["root"])

\* The conformances of the range [min_conf, max_conf].
ConformanceBox ==
    LET lo == min_conf(bounds)
        hi == max_conf(bounds)
    IN {Conformance(w, h, x, y) : w \in lo.w..hi.w, h \in lo.h..hi.h,
                                  x \in lo.x..hi.x, y \in lo.y..hi.y}

\* The returned constraints fix every anchor of the children at conf.
ExactlyOnePlacement(conf) ==
    \A x_dim \in BOOLEAN : Cardinality(FeasibleAt(SelectedOn(x_dim), conf, x_dim)) = 1

C3_OutputFromCandidates ==
    Returned => \A c \in result.output : \E k \in 1..Len(cands) : cands[k].constraint = c

\* A return whose list holds a constraint that combine_bounds built from
\* another candidate.
C3_Witness ==
    /\ Returned
    /\ \E k \in 1..Len(cands) :
        LET cs == WithoutAspectRatio(cands)
        IN /\ cands[k].constraint.kind # "size_aspect_ratio"
           /\ Combined(cs, cands[k].constraint) # cands[k].constraint
           /\ Combined(cs, cands[k].constraint) \in result.output

\* C11: an aspect-ratio candidate survives pruning: a call that returns on a
\* list holding a SIZE_ASPECT_RATIO candidate (it holds on the example,
\* a.width = a.height) returns a constraint of that kind.
C11_AspectRatioSurvives ==
    (Returned /\ \E k \in 1..Len(cands) : cands[k].constraint.kind = "size_aspect_ratio")
        => \E c \in result.output : c.kind = "size_aspect_ratio"

\* No call returns a constraint of kind SIZE_ASPECT_RATIO, whatever its
\* input.
NoAspectRatioReturned ==
    Returned => \A c \in result.output : c.kind # "size_aspect_ratio"

\* xdims / ydims of add_determinism: the four anchors of a view on an axis.
AxisAnchors(box, x_dim) ==
    {<<box, attr>> : attr \in IF x_dim THEN {"left", "right", "width", "center_x"}
                                       ELSE {"top", "bottom", "height", "center_y"}}

\* The returned constraints whose y is the anchor id.
DefinedBy(id) == {c \in result.output : c.y_id = id}

\* C12: with solve_unambig, the constraints returned from the solves obey
\* the determinism clauses: on each axis at most two of the four anchors of
\* a child are the y of a selected constraint, and every anchor is the y of
\* at most one selected constraint.
C12_Determinism ==
    (solve_unambig /\ ReturnedFromSolve) =>
        \A ch \in Children : \A x_dim \in BOOLEAN :
            /\ Cardinality({id \in AxisAnchors(ch, x_dim) : DefinedBy(id) # {}}) <= 2
            /\ \A id \in AxisAnchors(ch, x_dim) : Cardinality(DefinedBy(id)) <= 1

\* Every attribute of the constraint is horizontal / vertical.
OnlyHorizontal(c) ==
    c.y_id[2] \in hs_attrs /\ (c.x_id # NoAnchor => c.x_id[2] \in hs_attrs)
OnlyVertical(c) ==
    c.y_id[2] \in vs_attrs /\ (c.x_id # NoAnchor => c.x_id[2] \in vs_attrs)

\* The two axis instances have been built (lines 242-264 went through).
InstancesBuilt == ppc \in {"solve_x", "solve_y"} \/ ReturnedFromSolve

to_rect(conf) == <<conf.x, conf.y, conf.x + conf.w, conf.y + conf.h>>

\* C14: whenever the pruner returns, min_vals and max_vals give the focus
\* view the left, top, width and height of min_conf and of max_conf.
C14_EndpointValuations ==
    Returned =>
        /\ result.min_vals["root"] = to_rect(min_conf(bounds))
        /\ result.max_vals["root"] = to_rect(max_conf(bounds))

\* iters of synth_unambiguous: one per recorded ambiguous selector set.
iters == Cardinality(invalid_candidates)

\* C15: in the unambiguity loop a selector set recorded as ambiguous is
\* never proposed again ('inconceivable' is never raised), and the loop
\* terminates within 2^n iterations for the n selectors of its axis: every
\* iteration that does not leave the loop records a set that was not
\* recorded before, and at most 2^n sets are ever recorded.
C15_LoopTerminates ==
    [][\A x_dim \in BOOLEAN :
          Solving(x_dim) =>
              /\ error' # "inconceivable"
              /\ ppc' = ppc =>
                    /\ invalid_candidates \subseteq invalid_candidates'
                    /\ invalid_candidates' # invalid_candidates
                    /\ Cardinality(invalid_candidates') <= 2 ^ Cardinality(names_map(x_dim))]_vars

\* The loop of the horizontal instance has recorded every one of the 2^n
\* selector sets as ambiguous.
C15_Witness ==
    /\ Solving(TRUE)
    /\ names_map(TRUE) # {}
    /\ iters = 2 ^ Cardinality(names_map(TRUE))

\* The cap the loop is run with.
IterationCap == 1

\* C16: the refinement loop is bounded by the iteration cap: it never
\* records more than IterationCap ambiguous selections, and a call that
\* stops after using up the cap stops with the ambiguity-limit error.
C16_IterationCap ==
    /\ iters <= IterationCap
    /\ (ppc = "raised" /\ iters >= IterationCap) => error = "AmbiguityLimitError"

-----------------------------------------------------------------------------
(* Properties of HierarchicalPruner                                         *)

\* The views popped as focus so far.
PoppedFoci == {solved[k].focus : k \in 1..Len(solved)}

EndpointViews(c) == {c.y_id[1]} \cup (IF c.x_id # NoAnchor THEN {c.x_id[1]} ELSE {})

\* C18 as stated: the candidates passed to the pruner at a focus are exactly
\* those whose endpoint views all belong to {focus} and its children.
C18_RelevantAllInFocus ==
    \A k \in 1..Len(solved) :
        LET focus == solved[k].focus
            keep(cd) == EndpointViews(cd.constraint) \subseteq {focus} \cup ChildNames(focus)
        IN solved[k].relevant = SelectSeq(h_cands, keep)

\* C18, amended: the candidates passed to the pruner at a focus are exactly
\* those whose endpoint views all belong to {focus} and its children and
\* that have an endpoint on a child of the focus.
C18_RelevantTouchesChild ==
    \A k \in 1..Len(solved) :
        LET focus == solved[k].focus
            keep(cd) == /\ EndpointViews(cd.constraint) \subseteq {focus} \cup ChildNames(focus)
                        /\ EndpointViews(cd.constraint) \cap ChildNames(focus) # {}
        IN solved[k].relevant = SelectSeq(h_cands, keep)

\* A focus whose pruner got a candidate while another candidate, with every
\* endpoint on the focus itself, was left out.
C18_Witness ==
    \E k \in 1..Len(solved) :
        /\ solved[k].relevant # <<>>
        /\ \E n \in 1..Len(h_cands) :
            /\ EndpointViews(h_cands[n].constraint) = {solved[k].focus}
            /\ \A m \in 1..Len(solved[k].relevant) : solved[k].relevant[m] # h_cands[n]

-----------------------------------------------------------------------------
(* Properties of synthesize                                                 *)

\* Two examples of the input are not isomorphic.
NonIsomorphicInput ==
    \E i, j \in 1..Len(s_examples) : ~is_isomorphic(s_examples[i], s_examples[j])

\* C19: synthesize never produces a result for an input with two examples
\* that are not isomorphic (order-sensitive, names included), and when it
\* ends with an exception on such an input the exception is an input error.
C19_NonIsomorphicRejected ==
    (spc # "idle" /\ NonIsomorphicInput) =>
        /\ spc # "done"
        /\ spc = "raised" => s_error = "InputError"

-----------------------------------------------------------------------------
(* Properties of the constraint round trip                                  *)

\* C20: parsing c.to_dict() back gives a constraint equal to c, for every
\* concrete constraint c (any op, priority, sample_count and view name).
C20_RoundTrip ==
    rpc \in {"parsed", "raised"} => (rpc = "parsed" /\ r_parsed = r_c)

\* What the round trip does keep: kind, anchors, a, b and op of a constraint
\* whose view names have no dot.
RoundTripKeepsEquation ==
    rpc = "parsed" =>
        r_parsed = [r_c EXCEPT !.priority = PRIORITY_REQUIRED,
                               !.sample_count = 1, !.is_falsified = FALSE]


\* The passes of the loop whose pruner call was given the candidate cd.
SubmittedAt(cd) ==
    {k \in 1..Len(solved) :
        \E m \in 1..Len(solved[k].relevant) : solved[k].relevant[m] = cd}

\* C29: view names being unique in the hierarchy, every candidate is
\* relevant for at most one focus of the tree and is passed to at most one
\* pruner call of a run.
C29_RelevantAtOneFocus ==
    \A n \in 1..Len(h_cands) :
        /\ Cardinality({f \in HierViews : relevant_constraint(f, h_cands[n].constraint)}) <= 1
        /\ Cardinality(SubmittedAt(h_cands[n])) <= 1

\* A run that returned after one candidate went to the call at the root and
\* another to the call at a view below it.
C29_Witness ==
    /\ hpc = "done"
    /\ \E n, m \in 1..Len(h_cands) :
        \E i \in SubmittedAt(h_cands[n]) : \E j \in SubmittedAt(h_cands[m]) :
            /\ solved[i].focus = "root"
            /\ solved[j].focus = "a"


\* The constraints combine_bounds is called on, and its output.
BoundsInput == WithoutAspectRatio(cands)
BoundsOutput == combine_bounds(BoundsInput)

\* C23: combine_bounds replaces a '<=' and a '>=' constraint on the same
\* anchors whose offsets differ by less than 5 with one '=' constraint whose
\* offset is their mean, and returns every other constraint unchanged: an
\* '=' constraint is in the output as it was given.
C23_CombineBounds ==
    ppc # "idle" =>
        \A k \in 1..Len(BoundsInput) :
            LET c == BoundsInput[k]
                paired == \E j \in 1..Len(BoundsInput) :
                            /\ anchor_equiv(c, BoundsInput[j])
                            /\ {c.op, BoundsInput[j].op} = {"<=", ">="}
                            /\ Abs(BoundsInput[j].b - c.b) < 5
            IN /\ c.op = "=" => c \in BoundsOutput /\ Combined(BoundsInput, c) = c
               /\ (c.op # "=" /\ ~paired) => c \in BoundsOutput
               /\ (c.op # "=" /\ paired) =>
                    /\ c \notin BoundsOutput
                    /\ Combined(BoundsInput, c).op = "="

\* C27: every constraint that survives filter_constraints is a key of the
\* bias map built from the candidates, so the call never ends with the
\* KeyError of a missing weight.
C27_EveryConstraintHasWeight ==
    ppc # "idle" =>
        /\ MissingWeight(filter_constraints(cands), cands) = {}
        /\ error # "KeyError"

\* C30: every constraint BlackBoxPruner returns has comparison '=', and so
\* has every constraint given a selector.
C30_OnlyEqualitiesReturned ==
    /\ \A c \in constraints : c.op = "="
    /\ Returned => \A c \in result.output : c.op = "="

\* A call given a '>=' candidate returned constraints.
C30_Witness ==
    /\ Returned
    /\ result.output # {}
    /\ \E k \in 1..Len(cands) : cands[k].constraint.op # "="


\* A supplied bound, or the observed value d when none is supplied.
Supplied(v, d) == IF v = NoBound THEN d ELSE v

\* C28: every supplied size bound is honoured, 0 included: a component of
\* min_conf is the smaller of the supplied minimum and the observed value,
\* a component of max_conf the larger of the supplied maximum and the
\* observed value, so the root of the example lies between the two.
C28_BoundsHonoured ==
    ppc # "idle" =>
        LET r == FocusExample["root"]
            w == RectWidth(r)
            h == RectHeight(r)
            lo == min_conf(bounds)
            hi == max_conf(bounds)
        IN /\ lo = Conformance(Min(Supplied(bounds.min_w, w), w), Min(Supplied(bounds.min_h, h), h),
                               Min(Supplied(bounds.min_x, r[1]), r[1]), Min(Supplied(bounds.min_y, r[2]), r[2]))
           /\ hi = Conformance(Max(Supplied(bounds.max_w, w), w), Max(Supplied(bounds.max_h, h), h),
                               Max(Supplied(bounds.max_x, r[1]), r[1]), Max(Supplied(bounds.max_y, r[2]), r[2]))
           /\ lo.w <= w /\ w <= hi.w /\ lo.h <= h /\ h <= hi.h
           /\ lo.x <= r[1] /\ r[1] <= hi.x /\ lo.y <= r[2] /\ r[2] <= hi.y

\* The part of C28 the code keeps: the root of the example lies between
\* min_conf and max_conf.
ExampleWithinConfs ==
    ppc # "idle" =>
        LET r == FocusExample["root"]
            lo == min_conf(bounds)
            hi == max_conf(bounds)
        IN /\ lo.w <= RectWidth(r) /\ RectWidth(r) <= hi.w
           /\ lo.h <= RectHeight(r) /\ RectHeight(r) <= hi.h
           /\ lo.x <= r[1] /\ r[1] <= hi.x /\ lo.y <= r[2] /\ r[2] <= hi.y


\* The hard clauses of an axis instance alone are satisfiable.
HardSat(x_dim) == Satisfiable({}, x_dim, {})

\* C24: with unambiguity disabled the call fails exactly when the hard
\* clauses alone are unsatisfiable: no candidate list makes it end with an
\* exception while they are satisfiable, and it does not return otherwise.
C24_FailsOnlyWhenInfeasible ==
    (~solve_unambig /\ ppc # "idle") =>
        /\ ppc = "raised" => \E x_dim \in BOOLEAN : ~HardSat(x_dim)
        /\ ReturnedFromSolve => \A x_dim \in BOOLEAN : HardSat(x_dim)

\* The axis whose instance synth_unambiguous was solving when it raised.
FailedAxis == x_result = NoTriple

\* The selector sets of an axis that are satisfiable and leave the children
\* one placement at the middle conformance.
UniqueSelections(x_dim) ==
    {S \in SUBSET names_map(x_dim) : Satisfiable(S, x_dim, {}) /\ Unambiguous(S, x_dim)}

\* C25: the blocking clauses of the unambiguity loop never exclude a
\* satisfiable selector set with a unique child placement, and the loop
\* raises 'cant find a solution' only when no such set exists.
C25_LoopComplete ==
    solve_unambig =>
        /\ \A x_dim \in BOOLEAN :
            Solving(x_dim) =>
                \A S \in UniqueSelections(x_dim) :
                    \A blocked \in invalid_candidates : ~(blocked \subseteq S)
        /\ (ppc = "raised" /\ error = "cant find a solution") =>
                UniqueSelections(FailedAxis) = {}

\* The loop blocked a selector set of several constraints and then ran out
\* of models.
C25_Witness ==
    /\ solve_unambig
    /\ ppc = "raised"
    /\ error = "cant find a solution"
    /\ \E blocked \in invalid_candidates : Cardinality(blocked) >= 2

\* targets=[root] + list(root.children) (run.py 103), by name.
BaselineTargets ==
    {s_examples[1].name} \cup
    {s_examples[1].children[k].name : k \in 1..Len(s_examples[1].children)}

\* C26: every view with an anchor in a constraint that the baseline pruner
\* built by synthesize submits to a solver is one of the pruner's targets,
\* whatever the depth of the hierarchy.
C26_SubmittedViewsAreTargets ==
    (s_pruning = "baseline" /\ spc \in {"prune", "done", "raised"}) =>
        s_candidates \subseteq BaselineTargets

-----------------------------------------------------------------------------
(* Properties of the evaluation                                             *)

\* The positions that are members of group g.
GroupMembers(g) == {e_groups[g][k] : k \in 1..Len(e_groups[g])}

\* group_by_isomorphic_structure has returned.
Grouped == epc \in {"group", "done"} /\ e_conditional /\ e_i > Len(e_examples)

\* C21: the groups are a partition of the input: every example is in
\* exactly one group, the groups are in the order of their first members
\* and the members of a group in input order, and two examples are in one
\* group exactly when they are isomorphic, names included.
C21_GroupsPartition ==
    /\ \A g \in 1..Len(e_groups) :
        /\ e_groups[g] # <<>>
        /\ \A k \in 1..(Len(e_groups[g]) - 1) : e_groups[g][k] < e_groups[g][k + 1]
        /\ \A h \in 1..Len(e_groups) :
            /\ g < h => e_groups[g][1] < e_groups[h][1]
            /\ g # h => GroupMembers(g) \cap GroupMembers(h) = {}
    /\ Grouped =>
        /\ UNION {GroupMembers(g) : g \in 1..Len(e_groups)} = 1..Len(e_examples)
        /\ \A i, j \in 1..Len(e_examples) :
            (\E g \in 1..Len(e_groups) : {i, j} \subseteq GroupMembers(g))
                <=> is_isomorphic(e_examples[i], e_examples[j])

\* Three examples grouped into two groups, the first and the last example
\* in one group.
C21_Witness ==
    /\ Grouped
    /\ Len(e_examples) = 3
    /\ Len(e_groups) = 2
    /\ e_groups[1] = <<1, 3>>

\* C22: evaluate_layouts with conditional=False on a non-empty list of
\* mutually isomorphic examples returns a dict with 'rmsd', 'accuracy',
\* 'num_examples' the number of examples and 'num_groups' = 1.
C22_SingleStructureResult ==
    (/\ epc = "done"
     /\ ~e_conditional
     /\ e_examples # <<>>
     /\ \A i, j \in 1..Len(e_examples) : is_isomorphic(e_examples[i], e_examples[j])) =>
        /\ {"rmsd", "accuracy", "num_examples", "num_groups"} \subseteq DOMAIN e_result
        /\ e_result.num_examples = Len(e_examples)
        /\ e_result.num_groups = 1

\* What the code returns for C22's input: the keys of
\* evaluate_single_structure, num_examples the number of examples.
SingleStructureKeys ==
    (epc = "done" /\ ~e_conditional /\ e_examples # <<>>) =>
        /\ DOMAIN e_result = {"rmsd", "accuracy", "num_examples",
                              "per_example_rmsd", "per_example_accuracy"}
        /\ e_result.num_examples = Len(e_examples)

====
